---- MODULE Spec2Model ----
(***************************************************************************)
(* A model of the order-resolution and PDF-assembly core of                *)
(* BarcodePrintAuto: PDFProcessor.find_pdf_by_sku and                      *)
(* PDFProcessor.merge_pdfs (src/pdf_processor.py) and                      *)
(* OzonAPI.get_supply_items_by_order_number (src/ozon_api.py).             *)
(*                                                                         *)
(* File names are sequences of one-character strings, so that the          *)
(* formatting of a SKU into a name and the substring test of the fallback  *)
(* rule are computed, not assumed.  A Python dict is a function whose      *)
(* DOMAIN is the set of keys it carries.                                   *)
(***************************************************************************)
EXTENDS Integers, Sequences, FiniteSets, TLC

VARIABLES
    \* ---- PDFProcessor.merge_pdfs
    items,        \* the item list handed to merge_pdfs
    pdf_dir,      \* the directory of barcode files: file name -> kind of file
    output_file,  \* the file at output_path: [exists, pages]
    stats,        \* the statistics dict of merge_pdfs
    output_pdf,   \* the PdfWriter: the pages appended so far
    idx,          \* position of the `for item in items` loop (next item)
    pc,           \* "idle", "loop", "returned", "raised"
    error,        \* which PDFProcessorError was raised: "", "no_pages", "save"
    \* ---- PDFProcessor.find_pdf_by_sku called on its own
    loc_sku,      \* the sku asked for
    found,        \* <<>> before the call, <<result>> after it
    \* ---- OzonAPI.get_supply_items_by_order_number
    r_pc,         \* "idle", "search", "expand", "bundles", "returned", "raised"
    r_error,      \* which OzonAPIError was raised, "" when none
    order_ids,    \* the ids search_supply_orders returned
    orders,       \* the order details get_supply_order_details returned
    oi,           \* position of the `for order in orders` loop
    si,           \* position of the `for supply in order['supplies']` loop
    all_items,    \* the items gathered so far
    result,       \* <<>> until the method returns, then <<the result dict>>
    calls,        \* the remote calls of the OzonAPI method in progress, with
                  \* their outcomes
    \* ---- the three calls of OzonAPI, each on one response body
    sh_in,        \* [fn, body]: the method and the body _make_request gave it
    sh_out,       \* <<>> before the method ran, <<its outcome>> after
    \* ---- PDFProcessor as a scoped resource, process_supply, main
    p_pc,         \* per run: where the run is
    temp_dir,     \* per run: self.temp_dir of its PDFProcessor, None or <<dir>>
    p_exc,        \* per run: the exception in flight, <<>> when none
    p_ret,        \* per run: <<>> until process_supply (or, under --validate,
                  \* validate_credentials) returns, then <<bool>>
    disk,         \* the temporary directories that exist: name -> content
    extracts,     \* the calls of extract_zip made so far, with what they did
    touched,      \* the accesses to temporary directories made so far
    mode,         \* what main was asked to do, and the environment it runs in
    print_out,    \* <<>> until print_pdf ran, then <<its outcome>>
    exit_code,    \* <<>> until main is over, then <<the exit code>>
    \* ---- the window of OzonBarcodeGUI and its worker threads
    is_processing, \* self.is_processing
    process_btn,   \* the state of the process button: "normal" or "disabled"
    validate_btn,  \* the state of the validate button
    threads        \* per thread: what it runs and where it is

mvars == <<items, pdf_dir, output_file, stats, output_pdf, idx, pc, error>>
lvars == <<loc_sku, found>>
rvars == <<r_pc, r_error, order_ids, orders, oi, si, all_items, result, calls>>
svars == <<sh_in, sh_out>>
pvars == <<p_pc, temp_dir, p_exc, p_ret, disk, extracts, touched, mode,
           print_out, exit_code>>
gvars == <<is_processing, process_btn, validate_btn, threads>>
xvars == <<svars, pvars, gvars>>
vars == <<items, pdf_dir, output_file, stats, output_pdf, idx, pc, error,
          loc_sku, found,
          r_pc, r_error, order_ids, orders, oi, si, all_items, result, calls,
          sh_in, sh_out,
          p_pc, temp_dir, p_exc, p_ret, disk, extracts, touched, mode,
          print_out, exit_code,
          is_processing, process_btn, validate_btn, threads>>

----------------------------------------------------------------------------
(* Bounds of the model *)

MaxItems == 2     \* longest item list
MaxQty == 2       \* largest quantity of an item

----------------------------------------------------------------------------
(* Strings *)

\* Python's None where a path is expected: the empty path names no file
None == <<>>

DigitChar == <<"0", "1", "2", "3", "4", "5", "6", "7", "8", "9">>

\* str(sku) / f"{sku}": the decimal digits of a non-negative integer
RECURSIVE Str(_)
Str(n) == IF n < 10 THEN <<DigitChar[n + 1]>>
          ELSE Str(n \div 10) \o <<DigitChar[(n % 10) + 1]>>

PdfSuffix == <<".", "p", "d", "f">>
TxtSuffix == <<".", "t", "x", "t">>
OznPrefix == <<"O", "Z", "N">>
BarcodeTail == <<"_", "b", "a", "r", "c", "o", "d", "e">>

\* `sub in s` for strings
Contains(sub, s) ==
    \E i \in 1..(Len(s) - Len(sub) + 1) : SubSeq(s, i, i + Len(sub) - 1) = sub

EndsWith(s, suffix) ==
    /\ Len(s) >= Len(suffix)
    /\ SubSeq(s, Len(s) - Len(suffix) + 1, Len(s)) = suffix

\* search_dir.glob('*.pdf'): the entries whose name ends in .pdf
GlobPdf(names) == {n \in names : EndsWith(n, PdfSuffix)}

\* Path.stem: the name without its last suffix
Stem(n) == SubSeq(n, 1, Len(n) - Len(PdfSuffix))

----------------------------------------------------------------------------
(* PDFProcessor.find_pdf_by_sku *)

\* possible_names, in the order they are tried
PossibleNames(sku) ==
    << Str(sku) \o PdfSuffix,
       OznPrefix \o Str(sku) \o PdfSuffix,
       Str(sku) \o BarcodeTail \o PdfSuffix >>

\* the first loop: indices of possible_names whose file exists
ExactHits(sku, names) == {k \in 1..3 : PossibleNames(sku)[k] \in names}

\* a slip in the order of the rules: the last existing name wins
FirstOf_last(S) == CHOOSE k \in S : \A j \in S : k >= j

FirstOf(S) == CHOOSE k \in S : \A j \in S : k <= j

\* the second loop: *.pdf entries whose stem contains str(sku)
PartialHits(sku, names) == {n \in GlobPdf(names) : Contains(Str(sku), Stem(n))}

\* The set of values find_pdf_by_sku(sku, search_dir) can return when the
\* directory holds `names`.  glob yields entries in an order the file system
\* chooses, so with several partial matches any of them can be the first.
FindPdfBySku(sku, names) ==
    IF ExactHits(sku, names) # {}
    THEN {PossibleNames(sku)[FirstOf(ExactHits(sku, names))]}
    ELSE IF PartialHits(sku, names) # {}
         THEN PartialHits(sku, names)
         ELSE {None}

----------------------------------------------------------------------------
(* The inputs of merge_pdfs *)

SKUs == {1, 12}

\* dict.get(key, default)
Get(d, key, default) == IF key \in DOMAIN d THEN d[key] ELSE default

\* An item record of the bundle response: a complete one (sku, name,
\* quantity) or one that carries its sku alone.
ItemPool ==
    [sku : SKUs, name : {"A"}, quantity : 0..MaxQty] \cup [sku : SKUs]

ItemLists == UNION {[1..n -> ItemPool] : n \in 0..MaxItems}

\* What PdfReader makes of a file: "corrupt" does not parse; "empty" parses
\* to zero pages; "single" and "multi" parse to one and to two pages;
\* "fragile" parses to one page, and add_page may raise on it.
Kinds == {"corrupt", "empty", "single", "multi", "fragile"}

NumPages(kind) ==
    CASE kind = "empty" -> 0
      [] kind = "multi" -> 2
      [] OTHER -> 1

\* The file names a merge directory is drawn from: 1.pdf and OZN12.pdf
MergeNames == {PossibleNames(1)[1], PossibleNames(12)[2]}

Dirs(names) == UNION {[S -> Kinds] : S \in SUBSET names}

NoFile == [exists |-> FALSE, pages |-> <<>>]
OldFile == [exists |-> TRUE, pages |-> <<[file |-> None, index |-> 0]>>]

\* the default of item.get('name', ...), the Russian for "unknown item"
UnknownName == "Unknown item"

----------------------------------------------------------------------------
(* PDFProcessor.merge_pdfs *)

\* stats as merge_pdfs creates it
NewStats(its) ==
    [total_items |-> Len(its), total_pages |-> 0, processed_items |-> 0,
     skipped_items |-> 0, missing_pdfs |-> <<>>]

\* quantity = item.get('quantity', 1)
Quantity(item) == Get(item, "quantity", 1)

\* the entry appended to missing_pdfs
MissingEntry(item) ==
    [sku |-> Get(item, "sku", None),
     name |-> Get(item, "name", UnknownName),
     quantity |-> Quantity(item)]

\* a slip: the entry is put in front of missing_pdfs
RecordMissing_prepend(st, item) ==
    [st EXCEPT !.skipped_items = @ + 1,
               !.missing_pdfs = <<MissingEntry(item)>> \o @]

\* pdf_file is None: skipped_items += 1; missing_pdfs.append(...)
RecordMissing(st, item) ==
    [st EXCEPT !.skipped_items = @ + 1,
               !.missing_pdfs = Append(@, MissingEntry(item))]

\* a slip: the skipped item is not counted
RecordSkipped_forgot(st) == st

\* zero pages, or an exception while reading or copying: skipped_items += 1
RecordSkipped(st) == [st EXCEPT !.skipped_items = @ + 1]

\* a slip: total_pages counts one page per item, not one per copy
RecordPages_once(st, k) == [st EXCEPT !.total_pages = @ + 1]

\* k passes of the copy loop: total_pages += 1 each
RecordPages(st, k) == [st EXCEPT !.total_pages = @ + k]

\* processed_items += 1
RecordProcessed(st) == [st EXCEPT !.processed_items = @ + 1]

\* page = reader.pages[0]
FirstPage(pdf_file) == [file |-> pdf_file, index |-> 0]

\* k calls of output_pdf.add_page(page)
AddPages(out, page, k) == out \o [j \in 1..k |-> page]

InLoop == pc = "loop" /\ idx <= Len(items)

NextItem ==
    /\ idx' = idx + 1
    /\ UNCHANGED <<items, pdf_dir, output_file, pc, error, loc_sku, found>>
    /\ UNCHANGED <<rvars, xvars>>

\* find_pdf_by_sku returned None
MergeMissing ==
    /\ InLoop
    /\ None \in FindPdfBySku(Get(items[idx], "sku", None), DOMAIN pdf_dir)
    /\ stats' = RecordMissing(stats, items[idx])
    /\ output_pdf' = output_pdf
    /\ NextItem

\* a slip: the exception of PdfReader is not caught per item and ends the merge
MergeUnreadable_aborts ==
    /\ InLoop
    /\ \E pdf_file \in FindPdfBySku(Get(items[idx], "sku", None), DOMAIN pdf_dir) :
          /\ pdf_file # None
          /\ pdf_dir[pdf_file] = "corrupt"
    /\ pc' = "raised"
    /\ error' = "save"
    /\ UNCHANGED <<items, pdf_dir, output_file, stats, output_pdf, idx, loc_sku, found>>
    /\ UNCHANGED <<rvars, xvars>>

\* PdfReader(pdf_file) raised
MergeUnreadable ==
    /\ InLoop
    /\ \E pdf_file \in FindPdfBySku(Get(items[idx], "sku", None), DOMAIN pdf_dir) :
          /\ pdf_file # None
          /\ pdf_dir[pdf_file] = "corrupt"
    /\ stats' = RecordSkipped(stats)
    /\ output_pdf' = output_pdf
    /\ NextItem

\* len(reader.pages) == 0
MergeEmpty ==
    /\ InLoop
    /\ \E pdf_file \in FindPdfBySku(Get(items[idx], "sku", None), DOMAIN pdf_dir) :
          /\ pdf_file # None
          /\ pdf_dir[pdf_file] # "corrupt"
          /\ NumPages(pdf_dir[pdf_file]) = 0
    /\ stats' = RecordSkipped(stats)
    /\ output_pdf' = output_pdf
    /\ NextItem

\* a slip: an item that produced no copy is counted as skipped
MergeCopies_skipsZero ==
    /\ InLoop
    /\ \E pdf_file \in FindPdfBySku(Get(items[idx], "sku", None), DOMAIN pdf_dir) :
          /\ pdf_file # None
          /\ pdf_dir[pdf_file] # "corrupt"
          /\ NumPages(pdf_dir[pdf_file]) > 0
          /\ output_pdf' = AddPages(output_pdf, FirstPage(pdf_file), Quantity(items[idx]))
    /\ stats' = IF Quantity(items[idx]) = 0
                THEN RecordSkipped(stats)
                ELSE RecordProcessed(RecordPages(stats, Quantity(items[idx])))
    /\ NextItem

\* the copy loop ran to its end
MergeCopies ==
    /\ InLoop
    /\ \E pdf_file \in FindPdfBySku(Get(items[idx], "sku", None), DOMAIN pdf_dir) :
          /\ pdf_file # None
          /\ pdf_dir[pdf_file] # "corrupt"
          /\ NumPages(pdf_dir[pdf_file]) > 0
          /\ output_pdf' = AddPages(output_pdf, FirstPage(pdf_file), Quantity(items[idx]))
    /\ stats' = RecordProcessed(RecordPages(stats, Quantity(items[idx])))
    /\ NextItem

\* add_page raised in pass k + 1 of the copy loop, after k copies
MergeCopyFails ==
    /\ InLoop
    /\ \E pdf_file \in FindPdfBySku(Get(items[idx], "sku", None), DOMAIN pdf_dir) :
          /\ pdf_file # None
          /\ pdf_dir[pdf_file] = "fragile"
          /\ \E k \in 0..(Quantity(items[idx]) - 1) :
                /\ output_pdf' = AddPages(output_pdf, FirstPage(pdf_file), k)
                /\ stats' = RecordSkipped(RecordPages(stats, k))
    /\ NextItem

AfterLoop == pc = "loop" /\ idx > Len(items)

\* a slip: the check for an empty result is dropped
NothingToSave_never(st) == FALSE

\* if stats['total_pages'] == 0: raise PDFProcessorError
NothingToSave(st) == st.total_pages = 0

MergeNoPages ==
    /\ AfterLoop
    /\ NothingToSave(stats)
    /\ pc' = "raised"
    /\ error' = "no_pages"
    /\ UNCHANGED <<items, pdf_dir, output_file, stats, output_pdf, idx, loc_sku, found>>
    /\ UNCHANGED <<rvars, xvars>>

\* mkdir, open(output_path, 'wb'), output_pdf.write, return stats
MergeSave ==
    /\ AfterLoop
    /\ ~NothingToSave(stats)
    /\ output_file' = [exists |-> TRUE, pages |-> output_pdf]
    /\ pc' = "returned"
    /\ UNCHANGED <<items, pdf_dir, stats, output_pdf, idx, error, loc_sku, found>>
    /\ UNCHANGED <<rvars, xvars>>

\* mkdir or open raised (the file is as it was), or write raised (the file
\* is opened for writing and truncated): PDFProcessorError
MergeSaveFails ==
    /\ AfterLoop
    /\ ~NothingToSave(stats)
    /\ output_file' \in {output_file, [exists |-> TRUE, pages |-> <<>>]}
    /\ pc' = "raised"
    /\ error' = "save"
    /\ UNCHANGED <<items, pdf_dir, stats, output_pdf, idx, loc_sku, found>>
    /\ UNCHANGED <<rvars, xvars>>

\* the resolver before get_supply_items_by_order_number is called
\* no call of OzonAPI is looked at on its own
ShapeIdle ==
    /\ sh_in = <<>>
    /\ sh_out = <<>>

\* the pipeline runs that can be in flight at once
Runs == {1, 2}

MaxThreads == 2   \* worker threads of the GUI that can be alive at once
Threads == 1..MaxThreads

\* a thread that was not started, or has ended
NoThread == [kind |-> "none", at |-> "none", outcome |-> "none"]

\* no PDFProcessor exists and main is not running
PipelineIdle ==
    /\ p_pc = [r \in Runs |-> "idle"]
    /\ temp_dir = [r \in Runs |-> None]
    /\ p_exc = [r \in Runs |-> <<>>]
    /\ p_ret = [r \in Runs |-> <<>>]
    /\ disk = <<>>
    /\ extracts = <<>>
    /\ touched = {}
    /\ mode = <<>>
    /\ print_out = <<>>
    /\ exit_code = <<>>

\* the window as __init__ leaves it, no worker thread started
GuiIdle ==
    /\ is_processing = FALSE
    /\ process_btn = "normal"
    /\ validate_btn = "normal"
    /\ threads = [t \in Threads |-> NoThread]

OthersIdle == ShapeIdle /\ PipelineIdle /\ GuiIdle

ResolverIdle ==
    /\ r_pc = "idle"
    /\ r_error = ""
    /\ order_ids = <<>>
    /\ orders = <<>>
    /\ oi = 1
    /\ si = 1
    /\ all_items = <<>>
    /\ result = <<>>
    /\ calls = <<>>

InitMerge ==
    /\ ResolverIdle
    /\ OthersIdle
    /\ items \in ItemLists
    /\ pdf_dir \in Dirs(MergeNames)
    /\ output_file \in {NoFile, OldFile}
    /\ stats = NewStats(items)
    /\ output_pdf = <<>>
    /\ idx = 1
    /\ pc = "loop"
    /\ error = ""
    /\ loc_sku = 0
    /\ found = <<>>

NextMerge ==
    \/ MergeMissing
    \/ MergeUnreadable
    \/ MergeEmpty
    \/ MergeCopies
    \/ MergeCopyFails
    \/ MergeNoPages
    \/ MergeSave
    \/ MergeSaveFails

SpecMerge == InitMerge /\ [][NextMerge]_vars

----------------------------------------------------------------------------
(* find_pdf_by_sku called on its own, over richer directories *)

\* 1.pdf, OZN1.pdf, 1_barcode.pdf, OZN12.pdf, 12_barcode.pdf, 21.pdf,
\* OZN2.pdf and 1.txt
LocateNames ==
    { PossibleNames(1)[1], PossibleNames(1)[2], PossibleNames(1)[3],
      PossibleNames(12)[2], PossibleNames(12)[3], PossibleNames(21)[1],
      PossibleNames(2)[2], Str(1) \o TxtSuffix }

LocateSKUs == {1, 2, 12, 3}

Locate ==
    /\ pc = "idle"
    /\ \E sku \in LocateSKUs :
          /\ loc_sku' = sku
          /\ \E r \in FindPdfBySku(sku, DOMAIN pdf_dir) : found' = <<r>>
    /\ UNCHANGED <<items, pdf_dir, output_file, stats, output_pdf, idx, pc, error>>
    /\ UNCHANGED <<rvars, xvars>>

InitLocate ==
    /\ ResolverIdle
    /\ OthersIdle
    /\ items = <<>>
    /\ pdf_dir \in UNION {[S -> {"single"}] : S \in SUBSET LocateNames}
    /\ output_file = NoFile
    /\ stats = NewStats(items)
    /\ output_pdf = <<>>
    /\ idx = 1
    /\ pc = "idle"
    /\ error = ""
    /\ loc_sku = 0
    /\ found = <<>>

NextLocate == Locate

SpecLocate == InitLocate /\ [][NextLocate]_vars

----------------------------------------------------------------------------
(* What the claims about merge_pdfs speak of *)

\* the items the loop has gone through
Handled == SubSeq(items, 1, idx - 1)

\* the quantity an item stands for: its quantity field, one label without it
QuantityOf(item) == IF "quantity" \in DOMAIN item THEN item.quantity ELSE 1

\* the files find_pdf_by_sku can return for the item
Candidates(item) == FindPdfBySku(item.sku, DOMAIN pdf_dir) \ {None}

Locatable(item) == Candidates(item) # {}

\* the item's file parses and has a page, and copying its page does not fail
HasValidPdf(item) ==
    /\ Locatable(item)
    /\ \A f \in Candidates(item) : pdf_dir[f] \in {"single", "multi"}

\* the item's file is there but has zero pages or fails to parse
HasUnusablePdf(item) ==
    /\ Locatable(item)
    /\ \A f \in Candidates(item) : pdf_dir[f] \in {"corrupt", "empty"}

RECURSIVE SumQuantity(_)
SumQuantity(seq) ==
    IF seq = <<>> THEN 0 ELSE QuantityOf(Head(seq)) + SumQuantity(Tail(seq))

NotLocatable(item) == ~Locatable(item)

CountOf(seq, P(_)) == Cardinality({j \in 1..Len(seq) : P(seq[j])})

Finished == pc \in {"returned", "raised"}

----------------------------------------------------------------------------
(* C1: when the loop ends with total_pages = 0, merge_pdfs raises
   PDFProcessorError and leaves the output file as it was (neither created
   nor modified); every report merge_pdfs returns has total_pages >= 1. *)
C1_NoPagesRaises ==
    /\ [](pc = "returned" => stats.total_pages >= 1)
    /\ [](pc = "raised" /\ error = "no_pages" => stats.total_pages = 0)
    /\ [][ stats.total_pages = 0 /\ pc = "loop"
             => /\ output_file' = output_file
                /\ idx > Len(items) => (pc' = "raised" /\ error' = "no_pages") ]_vars

\* every item was processed with quantity 0, over a file left from an
\* earlier run: merge_pdfs has raised and the old file is untouched
C1_Witness ==
    /\ pc = "raised"
    /\ error = "no_pages"
    /\ Len(items) = 2
    /\ stats.processed_items = 2
    /\ output_file = OldFile

----------------------------------------------------------------------------
(* C2: processed_items + skipped_items counts the items handled so far at
   every point of the loop, and equals total_items = len(items) in every
   report merge_pdfs returns. *)
C2_CountsAddUp ==
    pc \in {"loop", "returned", "raised"} =>
        /\ stats.processed_items + stats.skipped_items = idx - 1
        /\ stats.total_items = Len(items)
        /\ (pc = "returned" =>
              stats.processed_items + stats.skipped_items = stats.total_items)

\* a report with one item processed and one skipped
C2_Witness ==
    /\ pc = "returned"
    /\ stats.total_items = 2
    /\ stats.processed_items = 1
    /\ stats.skipped_items = 1

(* C3 as stated: for every non-empty item list whose items all have a
   locatable, valid PDF, merge_pdfs returns a report with total_pages = the
   sum of the quantities, processed_items = total_items, skipped_items = 0
   (a failure to write the output file left aside). *)
C3_AllValidReturns ==
    ( /\ Finished
      /\ error # "save"
      /\ Len(items) >= 1
      /\ \A j \in 1..Len(items) : HasValidPdf(items[j]) )
    => /\ pc = "returned"
       /\ stats.total_pages = SumQuantity(items)
       /\ stats.processed_items = stats.total_items
       /\ stats.skipped_items = 0

(* C3 amended: for such a list the loop ends with total_pages = the sum of
   the quantities, processed_items = total_items and skipped_items = 0;
   merge_pdfs returns that report when the sum is at least 1 and raises
   PDFProcessorError when every quantity is 0. *)
C3_AllValidCounts ==
    ( /\ Finished
      /\ error # "save"
      /\ Len(items) >= 1
      /\ \A j \in 1..Len(items) : HasValidPdf(items[j]) )
    => /\ stats.total_pages = SumQuantity(items)
       /\ stats.processed_items = stats.total_items
       /\ stats.skipped_items = 0
       /\ (SumQuantity(items) >= 1 => pc = "returned")
       /\ (SumQuantity(items) = 0 => pc = "raised" /\ error = "no_pages")

\* two items with valid files, quantities summing to 3, report returned
C3_Witness ==
    /\ pc = "returned"
    /\ Len(items) = 2
    /\ \A j \in 1..Len(items) : HasValidPdf(items[j])
    /\ SumQuantity(items) = 3
    /\ stats.total_pages = 3

\* the entry of missing_pdfs an item with no file is to leave: its own sku,
\* name and quantity (the defaults of merge_pdfs for a field it lacks)
OriginalEntry(item) ==
    [sku |-> item.sku,
     name |-> IF "name" \in DOMAIN item THEN item.name ELSE UnknownName,
     quantity |-> QuantityOf(item)]

RECURSIVE ExpectedMissing(_)
ExpectedMissing(seq) ==
    IF seq = <<>> THEN <<>>
    ELSE (IF NotLocatable(Head(seq)) THEN <<OriginalEntry(Head(seq))>> ELSE <<>>)
         \o ExpectedMissing(Tail(seq))

(* C4: missing_pdfs holds exactly one entry for each handled item for which
   find_pdf_by_sku returned None, with that item's sku, name and quantity,
   in input order; the step that handles such an item adds one to
   skipped_items, leaves processed_items alone and emits no page. *)
C4_MissingRecorded ==
    /\ [](pc # "idle" => stats.missing_pdfs = ExpectedMissing(Handled))
    /\ [][ InLoop /\ NotLocatable(items[idx])
             => /\ stats'.skipped_items = stats.skipped_items + 1
                /\ stats'.processed_items = stats.processed_items
                /\ stats'.total_pages = stats.total_pages
                /\ output_pdf' = output_pdf ]_vars

\* two items of different skus, neither with a file, both recorded
C4_Witness ==
    /\ pc = "loop"
    /\ idx = 3
    /\ Len(stats.missing_pdfs) = 2
    /\ stats.missing_pdfs[1].sku # stats.missing_pdfs[2].sku
    /\ stats.missing_pdfs[2] = OriginalEntry(items[2])

(* C5: an item whose file is located but has zero pages or fails to parse
   is counted in skipped_items and not added to missing_pdfs: missing_pdfs
   has as many entries as there are handled items with no locatable file,
   which is at most skipped_items; and merge_pdfs never stops before the
   last item. *)
C5_UnusableNotMissing ==
    pc # "idle" =>
        /\ Len(stats.missing_pdfs) = CountOf(Handled, NotLocatable)
        /\ Len(stats.missing_pdfs) <= stats.skipped_items
        /\ stats.skipped_items >=
              CountOf(Handled, NotLocatable) + CountOf(Handled, HasUnusablePdf)
        /\ (Finished => idx = Len(items) + 1)

\* the first item's file is unusable, the second was processed, and the
\* report lists nothing as missing
C5_Witness ==
    /\ pc = "returned"
    /\ Len(items) = 2
    /\ HasUnusablePdf(items[1])
    /\ stats.skipped_items = 1
    /\ stats.processed_items = 1
    /\ stats.missing_pdfs = <<>>

IsZeroQuantity(item) == "quantity" \in DOMAIN item /\ item.quantity = 0

\* the item's file is located, parses and has at least one page
HasReadablePdf(item) ==
    /\ Locatable(item)
    /\ \A f \in Candidates(item) : pdf_dir[f] \notin {"corrupt", "empty"}

(* C6 as stated: the step that handles a quantity-zero item counts it in
   processed_items, adds nothing to total_pages and adds nothing to
   missing_pdfs. *)
C6_ZeroQuantityProcessed ==
    [][ InLoop /\ IsZeroQuantity(items[idx])
          => /\ stats'.processed_items = stats.processed_items + 1
             /\ stats'.total_pages = stats.total_pages
             /\ stats'.missing_pdfs = stats.missing_pdfs ]_vars

(* C6 amended: a quantity-zero item adds nothing to total_pages; when its
   file is located and parses with at least one page it is counted in
   processed_items and not added to missing_pdfs; when it has no locatable
   file it is counted in skipped_items and added to missing_pdfs, like any
   other item. *)
C6_ZeroQuantityByFile ==
    [][ InLoop /\ IsZeroQuantity(items[idx])
          => /\ stats'.total_pages = stats.total_pages
             /\ output_pdf' = output_pdf
             /\ HasReadablePdf(items[idx]) =>
                   /\ stats'.processed_items = stats.processed_items + 1
                   /\ stats'.skipped_items = stats.skipped_items
                   /\ stats'.missing_pdfs = stats.missing_pdfs
             /\ NotLocatable(items[idx]) =>
                   /\ stats'.processed_items = stats.processed_items
                   /\ stats'.skipped_items = stats.skipped_items + 1
                   /\ stats'.missing_pdfs =
                         Append(stats.missing_pdfs, OriginalEntry(items[idx])) ]_vars

\* a quantity-zero item with a readable file went through the loop before an
\* item of quantity 2: both are processed, two pages, nothing missing
C6_Witness ==
    /\ pc = "returned"
    /\ Len(items) = 2
    /\ IsZeroQuantity(items[1])
    /\ HasReadablePdf(items[1])
    /\ stats.processed_items = 2
    /\ stats.total_pages = 2
    /\ stats.missing_pdfs = <<>>

----------------------------------------------------------------------------
(* C7: find_pdf_by_sku returns {sku}.pdf when it exists; else OZN{sku}.pdf
   when it exists; else {sku}_barcode.pdf when it exists; else some *.pdf
   entry whose base name contains the decimal string of sku; and None
   exactly when none of the four rules matches. *)
C7_LocateOrder ==
    found # <<>> =>
        LET r == found[1]
            names == DOMAIN pdf_dir
            n1 == Str(loc_sku) \o PdfSuffix
            n2 == OznPrefix \o Str(loc_sku) \o PdfSuffix
            n3 == Str(loc_sku) \o BarcodeTail \o PdfSuffix
            partial == {n \in names : EndsWith(n, PdfSuffix)
                                       /\ Contains(Str(loc_sku), Stem(n))}
        IN  /\ n1 \in names => r = n1
            /\ (n1 \notin names /\ n2 \in names) => r = n2
            /\ (n1 \notin names /\ n2 \notin names /\ n3 \in names) => r = n3
            /\ (n1 \notin names /\ n2 \notin names /\ n3 \notin names
                  /\ partial # {}) => r \in partial
            /\ r = None <=> (n1 \notin names /\ n2 \notin names
                               /\ n3 \notin names /\ partial = {})

\* 1.pdf, OZN1.pdf and 1_barcode.pdf are all there and 1.pdf was returned
C7_Witness ==
    /\ found = <<Str(1) \o PdfSuffix>>
    /\ loc_sku = 1
    /\ {Str(1) \o PdfSuffix, OznPrefix \o Str(1) \o PdfSuffix,
        Str(1) \o BarcodeTail \o PdfSuffix} \subseteq DOMAIN pdf_dir

----------------------------------------------------------------------------
(* The remote API as the resolver sees it *)

MaxOrders == 2    \* most order details in one response of the expand call

\* _make_request either returns the parsed body or raises OzonAPIError: on an
\* HTTP error status, on a transport failure or timeout, on a body that is
\* not JSON.
RequestFailures == {"http_error", "transport", "bad_json"}

Failed(kind) == [status |-> kind, body |-> <<>>]
Ok(body) == [status |-> "ok", body |-> body]

\* bodies of /v3/supply-order/list: the ids at the top level, under 'result',
\* in both places, in neither
SearchBodies ==
    { [order_ids |-> <<>>],
      [order_ids |-> <<7, 8>>],
      [result |-> [order_ids |-> <<>>]],
      [result |-> [order_ids |-> <<7>>]],
      [order_ids |-> <<7>>, result |-> [order_ids |-> <<8>>]],
      [result |-> [has_next |-> FALSE]],
      [has_next |-> FALSE] }

\* JSON null in a response body, Python's None once parsed
Null == "null"

\* the integer 0 as an id; the ids are opaque, so they are written as strings
Zero == "0"

FullSupply(b) == [bundle_id |-> b, storage_warehouse |-> [warehouse_id |-> "20"]]

Dropoff == [warehouse_id |-> "10"]

\* order details: one complete sub-supply; two complete sub-supplies; a
\* sub-supply without bundle_id before a complete one; a complete one before
\* one without storage_warehouse; a storage_warehouse without warehouse_id;
\* no 'supplies'; empty 'supplies'; no 'drop_off_warehouse'; a
\* drop_off_warehouse without warehouse_id; a bundle_id that is null; a
\* storage warehouse_id that is null; a storage warehouse_id that is 0; a
\* drop-off warehouse_id that is null; a drop-off warehouse_id that is 0
OrderPool ==
    { [order_id |-> 7, drop_off_warehouse |-> Dropoff,
       supplies |-> <<FullSupply("b1")>>],
      [order_id |-> 7, drop_off_warehouse |-> Dropoff,
       supplies |-> <<FullSupply("b1"), FullSupply("b2")>>],
      [order_id |-> 7, drop_off_warehouse |-> Dropoff,
       supplies |-> <<[storage_warehouse |-> [warehouse_id |-> "20"]],
                      FullSupply("b2")>>],
      [order_id |-> 8, drop_off_warehouse |-> Dropoff,
       supplies |-> <<FullSupply("b1"), [bundle_id |-> "b2"]>>],
      [order_id |-> 8, drop_off_warehouse |-> Dropoff,
       supplies |-> <<[bundle_id |-> "b1",
                       storage_warehouse |-> [name |-> "x"]]>>],
      [order_id |-> 8, drop_off_warehouse |-> Dropoff],
      [order_id |-> 8, drop_off_warehouse |-> Dropoff, supplies |-> <<>>],
      [order_id |-> 8, supplies |-> <<FullSupply("b1")>>],
      [order_id |-> 8, drop_off_warehouse |-> [name |-> "x"],
       supplies |-> <<FullSupply("b1")>>],
      [order_id |-> 9, drop_off_warehouse |-> Dropoff,
       supplies |-> <<FullSupply(Null)>>],
      [order_id |-> 9, drop_off_warehouse |-> Dropoff,
       supplies |-> <<[bundle_id |-> "b1",
                       storage_warehouse |-> [warehouse_id |-> Null]]>>],
      [order_id |-> 9, drop_off_warehouse |-> Dropoff,
       supplies |-> <<[bundle_id |-> "b1",
                       storage_warehouse |-> [warehouse_id |-> Zero]]>>],
      [order_id |-> 9, drop_off_warehouse |-> [warehouse_id |-> Null],
       supplies |-> <<FullSupply("b1")>>],
      [order_id |-> 9, drop_off_warehouse |-> [warehouse_id |-> Zero],
       supplies |-> <<FullSupply("b1")>>] }

OrderLists == UNION {[1..n -> OrderPool] : n \in 0..MaxOrders}

\* bodies of /v3/supply-order/get: the orders under 'result' (any list), at
\* the top level (no order, or one), in neither place
ExpandBodies ==
    {[result |-> [orders |-> os]] : os \in OrderLists}
    \cup {[orders |-> os] : os \in {l \in OrderLists : Len(l) <= 1}}
    \cup {[result |-> [has_next |-> FALSE]], [has_next |-> FALSE]}

\* bodies of /v1/supply-order/bundle: no item; one item; two items, one of
\* them of the same sku as the item of the other body and one without a
\* quantity; items in neither place
BundleBodies ==
    { [result |-> [items |-> <<>>]],
      [items |-> <<[sku |-> 1, name |-> "A", quantity |-> 2]>>],
      [result |-> [items |-> <<[sku |-> 1, name |-> "A", quantity |-> 1],
                               [sku |-> 12]>>]],
      [result |-> [has_next |-> FALSE]],
      [has_next |-> FALSE] }

OrderNumber == "2000038642317"

----------------------------------------------------------------------------
(* OzonAPI: the three calls *)

\* a slip: the wrapped shape is looked at first, as the other two calls do
SearchShape_wrappedFirst(body) ==
    IF "result" \in DOMAIN body /\ "order_ids" \in DOMAIN body.result
    THEN <<body.result.order_ids>>
    ELSE IF "order_ids" \in DOMAIN body THEN <<body.order_ids>>
         ELSE <<>>

\* search_supply_orders: where it reads order_ids, <<>> when neither shape fits
SearchShape(body) ==
    IF "order_ids" \in DOMAIN body THEN <<body.order_ids>>
    ELSE IF "result" \in DOMAIN body /\ "order_ids" \in DOMAIN body.result
         THEN <<body.result.order_ids>>
         ELSE <<>>

\* get_supply_order_details: where it reads orders
ExpandShape(body) ==
    IF "result" \in DOMAIN body /\ "orders" \in DOMAIN body.result
    THEN <<body.result.orders>>
    ELSE IF "orders" \in DOMAIN body THEN <<body.orders>>
         ELSE <<>>

\* get_bundle_items: where it reads items
BundleShape(body) ==
    IF "result" \in DOMAIN body /\ "items" \in DOMAIN body.result
    THEN <<body.result.items>>
    ELSE IF "items" \in DOMAIN body THEN <<body.items>>
         ELSE <<>>

\* the record of one remote call: the endpoint, the sub-supply it was made
\* for (<<0, 0>> for the first two calls), what was sent, what came back
Call(endpoint, at, sent, outcome) ==
    [endpoint |-> endpoint, at |-> at, sent |-> sent, outcome |-> outcome]

Raise(kind) ==
    /\ r_pc' = "raised"
    /\ r_error' = kind
    /\ UNCHANGED <<order_ids, orders, oi, si, all_items, result>>

----------------------------------------------------------------------------
(* OzonAPI.get_supply_items_by_order_number *)

\* Step 1: the request of search_supply_orders failed
SearchFails ==
    /\ r_pc = "search"
    /\ \E kind \in RequestFailures :
          calls' = Append(calls, Call("list", <<0, 0>>, OrderNumber, Failed(kind)))
    /\ Raise("request")
    /\ UNCHANGED <<mvars, lvars, xvars>>

\* neither shape of the body holds order_ids
SearchBadFormat ==
    /\ r_pc = "search"
    /\ \E body \in SearchBodies :
          /\ SearchShape(body) = <<>>
          /\ calls' = Append(calls, Call("list", <<0, 0>>, OrderNumber, Ok(body)))
    /\ Raise("format")
    /\ UNCHANGED <<mvars, lvars, xvars>>

\* a slip: the check for an empty id list is dropped
NoOrderIds_never(ids) == FALSE

\* if not order_ids: raise OzonAPIError
NoOrderIds(ids) == ids = <<>>

\* search_supply_orders returned; `if not order_ids` decides
SearchReturns ==
    /\ r_pc = "search"
    /\ \E body \in SearchBodies :
          /\ SearchShape(body) # <<>>
          /\ calls' = Append(calls, Call("list", <<0, 0>>, OrderNumber, Ok(body)))
          /\ order_ids' = SearchShape(body)[1]
          /\ IF NoOrderIds(SearchShape(body)[1])
             THEN r_pc' = "raised" /\ r_error' = "no_orders"
             ELSE r_pc' = "expand" /\ r_error' = r_error
    /\ UNCHANGED <<orders, oi, si, all_items, result>>
    /\ UNCHANGED <<mvars, lvars, xvars>>

\* Step 2: the request of get_supply_order_details failed
ExpandFails ==
    /\ r_pc = "expand"
    /\ \E kind \in RequestFailures :
          calls' = Append(calls, Call("get", <<0, 0>>, order_ids, Failed(kind)))
    /\ Raise("request")
    /\ UNCHANGED <<mvars, lvars, xvars>>

ExpandBadFormat ==
    /\ r_pc = "expand"
    /\ \E body \in ExpandBodies :
          /\ ExpandShape(body) = <<>>
          /\ calls' = Append(calls, Call("get", <<0, 0>>, order_ids, Ok(body)))
    /\ Raise("format")
    /\ UNCHANGED <<mvars, lvars, xvars>>

\* if not orders: raise OzonAPIError
NoOrders(os) == os = <<>>

\* get_supply_order_details returned; `if not orders` decides; all_items = []
ExpandReturns ==
    /\ r_pc = "expand"
    /\ \E body \in ExpandBodies :
          /\ ExpandShape(body) # <<>>
          /\ calls' = Append(calls, Call("get", <<0, 0>>, order_ids, Ok(body)))
          /\ orders' = ExpandShape(body)[1]
          /\ IF NoOrders(ExpandShape(body)[1])
             THEN r_pc' = "raised" /\ r_error' = "no_details"
             ELSE r_pc' = "bundles" /\ r_error' = r_error
    /\ oi' = 1
    /\ si' = 1
    /\ all_items' = <<>>
    /\ UNCHANGED <<order_ids, result>>
    /\ UNCHANGED <<mvars, lvars, xvars>>

\* 'supplies' not in order or not order['supplies']
NoSupplies(order) ==
    IF "supplies" \notin DOMAIN order THEN TRUE ELSE order.supplies = <<>>

\* dropoff_warehouse_id: <<>> for None (no drop_off_warehouse, no warehouse_id
\* in it, or a null one), else <<the id>>
DropoffWarehouseId(order) ==
    IF "drop_off_warehouse" \notin DOMAIN order THEN <<>>
    ELSE IF "warehouse_id" \notin DOMAIN order.drop_off_warehouse THEN <<>>
    ELSE IF order.drop_off_warehouse.warehouse_id = Null THEN <<>>
    ELSE <<order.drop_off_warehouse.warehouse_id>>

\* storage_warehouse_ids: [] or [warehouse_id], whatever the value is
StorageWarehouseIds(supply) ==
    IF "storage_warehouse" \in DOMAIN supply
       /\ "warehouse_id" \in DOMAIN supply.storage_warehouse
    THEN <<supply.storage_warehouse.warehouse_id>>
    ELSE <<>>

\* the three `continue`s of the supply loop: no key bundle_id,
\* `not dropoff_warehouse_id` (None or 0), `not storage_warehouse_ids` (an
\* empty list; a list of one null or zero id is not empty)
SupplySkipped(order, supply) ==
    IF "bundle_id" \notin DOMAIN supply THEN TRUE
    ELSE IF DropoffWarehouseId(order) = <<>> THEN TRUE
    ELSE IF DropoffWarehouseId(order)[1] = Zero THEN TRUE
    ELSE StorageWarehouseIds(supply) = <<>>

\* what get_bundle_items is called with
BundleRequest(order, supply) ==
    [bundle_ids |-> <<supply.bundle_id>>,
     dropoff_warehouse_id |-> DropoffWarehouseId(order)[1],
     storage_warehouse_ids |-> StorageWarehouseIds(supply)]

AtOrder == r_pc = "bundles" /\ oi <= Len(orders)

AtSupply == AtOrder /\ ~NoSupplies(orders[oi])

\* the next pass of the supply loop, or of the order loop after the last supply
NextSupply ==
    /\ IF si < Len(orders[oi].supplies)
       THEN oi' = oi /\ si' = si + 1
       ELSE oi' = oi + 1 /\ si' = 1
    /\ UNCHANGED <<r_pc, r_error, order_ids, orders, result>>

\* the order has no supplies: continue
SkipOrder ==
    /\ AtOrder
    /\ NoSupplies(orders[oi])
    /\ oi' = oi + 1
    /\ si' = 1
    /\ UNCHANGED <<r_pc, r_error, order_ids, orders, all_items, result, calls>>
    /\ UNCHANGED <<mvars, lvars, xvars>>

\* the sub-supply lacks an id: continue
SkipSupply ==
    /\ AtSupply
    /\ SupplySkipped(orders[oi], orders[oi].supplies[si])
    /\ NextSupply
    /\ UNCHANGED <<all_items, calls>>
    /\ UNCHANGED <<mvars, lvars, xvars>>

\* a slip: a failed bundle request is logged and the loop goes on
BundleFails_skips ==
    /\ AtSupply
    /\ ~SupplySkipped(orders[oi], orders[oi].supplies[si])
    /\ \E kind \in RequestFailures :
          calls' = Append(calls, Call("bundle", <<oi, si>>,
                                      BundleRequest(orders[oi], orders[oi].supplies[si]),
                                      Failed(kind)))
    /\ NextSupply
    /\ UNCHANGED all_items
    /\ UNCHANGED <<mvars, lvars, xvars>>

\* Step 3: the request of get_bundle_items failed
BundleFails ==
    /\ AtSupply
    /\ ~SupplySkipped(orders[oi], orders[oi].supplies[si])
    /\ \E kind \in RequestFailures :
          calls' = Append(calls, Call("bundle", <<oi, si>>,
                                      BundleRequest(orders[oi], orders[oi].supplies[si]),
                                      Failed(kind)))
    /\ Raise("request")
    /\ UNCHANGED <<mvars, lvars, xvars>>

BundleBadFormat ==
    /\ AtSupply
    /\ ~SupplySkipped(orders[oi], orders[oi].supplies[si])
    /\ \E body \in BundleBodies :
          /\ BundleShape(body) = <<>>
          /\ calls' = Append(calls, Call("bundle", <<oi, si>>,
                                         BundleRequest(orders[oi], orders[oi].supplies[si]),
                                         Ok(body)))
    /\ Raise("format")
    /\ UNCHANGED <<mvars, lvars, xvars>>

\* a slip: an item whose sku was already gathered is dropped
Extend_dedup(all, its) ==
    LET Fresh(it) == \A k \in 1..Len(all) : all[k].sku # it.sku
    IN  all \o SelectSeq(its, Fresh)

\* all_items.extend(items)
Extend(all, its) == all \o its

\* get_bundle_items returned
BundleReturns ==
    /\ AtSupply
    /\ ~SupplySkipped(orders[oi], orders[oi].supplies[si])
    /\ \E body \in BundleBodies :
          /\ BundleShape(body) # <<>>
          /\ calls' = Append(calls, Call("bundle", <<oi, si>>,
                                         BundleRequest(orders[oi], orders[oi].supplies[si]),
                                         Ok(body)))
          /\ all_items' = Extend(all_items, BundleShape(body)[1])
    /\ NextSupply
    /\ UNCHANGED <<mvars, lvars, xvars>>

AfterOrders == r_pc = "bundles" /\ oi > Len(orders)

\* a slip: the check for an empty item list is dropped
NoItems_never(all) == FALSE

\* if not all_items: raise OzonAPIError
NoItems(all) == all = <<>>

RECURSIVE TotalQuantity(_)
\* a slip: the items are counted, not their quantities
TotalQuantity_counts(seq) == Len(seq)

\* sum(item.get('quantity', 0) for item in all_items)
TotalQuantity(seq) ==
    IF seq = <<>> THEN 0
    ELSE Get(Head(seq), "quantity", 0) + TotalQuantity(Tail(seq))

ResolveNoItems ==
    /\ AfterOrders
    /\ NoItems(all_items)
    /\ Raise("no_items")
    /\ UNCHANGED calls
    /\ UNCHANGED <<mvars, lvars, xvars>>

ResolveReturns ==
    /\ AfterOrders
    /\ ~NoItems(all_items)
    /\ result' = << [order_number |-> OrderNumber,
                     order_ids |-> order_ids,
                     items |-> all_items,
                     total_unique |-> Len(all_items),
                     total_quantity |-> TotalQuantity(all_items)] >>
    /\ r_pc' = "returned"
    /\ UNCHANGED <<r_error, order_ids, orders, oi, si, all_items, calls>>
    /\ UNCHANGED <<mvars, lvars, xvars>>

InitResolve ==
    /\ OthersIdle
    /\ items = <<>>
    /\ pdf_dir = <<>>
    /\ output_file = NoFile
    /\ stats = NewStats(items)
    /\ output_pdf = <<>>
    /\ idx = 1
    /\ pc = "idle"
    /\ error = ""
    /\ loc_sku = 0
    /\ found = <<>>
    /\ r_pc = "search"
    /\ r_error = ""
    /\ order_ids = <<>>
    /\ orders = <<>>
    /\ oi = 1
    /\ si = 1
    /\ all_items = <<>>
    /\ result = <<>>
    /\ calls = <<>>

NextResolve ==
    \/ SearchFails
    \/ SearchBadFormat
    \/ SearchReturns
    \/ ExpandFails
    \/ ExpandBadFormat
    \/ ExpandReturns
    \/ SkipOrder
    \/ SkipSupply
    \/ BundleFails
    \/ BundleBadFormat
    \/ BundleReturns
    \/ ResolveNoItems
    \/ ResolveReturns

SpecResolve == InitResolve /\ [][NextResolve]_vars

----------------------------------------------------------------------------
(* What the claims about the resolver speak of *)

RFinished == r_pc \in {"returned", "raised"}

CallOk(c) == c.outcome.status = "ok"

\* the bundle queries that were answered, in the order they were made
BundleCalls ==
    LET IsBundle(c) == c.endpoint = "bundle" /\ CallOk(c)
    IN  SelectSeq(calls, IsBundle)

\* the item list a bundle body carries
ReturnedItems(body) ==
    IF "result" \in DOMAIN body THEN body.result.items ELSE body.items

RECURSIVE Concatenation(_)
Concatenation(cs) ==
    IF cs = <<>> THEN <<>>
    ELSE ReturnedItems(Head(cs).outcome.body) \o Concatenation(Tail(cs))

\* sub-supply p comes before sub-supply q: an earlier order-request, or the
\* same one and an earlier sub-supply
Before(p, q) == p[1] < q[1] \/ (p[1] = q[1] /\ p[2] < q[2])

(* C8: get_supply_items_by_order_number returns a result only with a
   non-empty item list; it raises OzonAPIError, and returns nothing, when the
   search yields no id (no further call is made), when the expand call yields
   no order detail (no further call is made) and when no item was gathered
   from the sub-supplies. *)
C8_NeverEmptyResult ==
    /\ (r_pc = "returned") = (result # <<>>)
    /\ result # <<>> => result[1].items # <<>>
    /\ (r_pc \notin {"idle", "search"} /\ order_ids = <<>>)
          => (r_pc = "raised" /\ Len(calls) = 1)
    /\ (r_pc \notin {"idle", "search", "expand"} /\ order_ids # <<>> /\ orders = <<>>)
          => (r_pc = "raised" /\ Len(calls) = 2)
    /\ (RFinished /\ all_items = <<>>) => r_pc = "raised"
    /\ r_error = "no_orders" => (CallOk(calls[1]) /\ order_ids = <<>>)
    /\ r_error = "no_details" => (CallOk(calls[2]) /\ orders = <<>>)
    /\ r_error = "no_items" => (oi > Len(orders) /\ all_items = <<>>)

\* a bundle was queried and held no item: the resolver has raised
C8_Witness ==
    /\ r_pc = "raised"
    /\ r_error = "no_items"
    /\ Len(calls) = 3
    /\ CallOk(calls[3])

(* C9: when a remote call fails (HTTP error status, transport failure,
   unparseable body), the method raises OzonAPIError at once: the failed
   call is the last call of the run (it is not repeated and none follows
   it) and nothing is returned, whatever was gathered before. *)
C9_FailureIsFinal ==
    \A k \in 1..Len(calls) :
        ~CallOk(calls[k]) =>
            /\ calls[k].outcome.status \in RequestFailures
            /\ k = Len(calls)
            /\ r_pc = "raised"
            /\ r_error = "request"
            /\ result = <<>>

\* a bundle query failed on its body after an earlier bundle gave items
C9_Witness ==
    /\ r_pc = "raised"
    /\ Len(calls) = 4
    /\ calls[4].endpoint = "bundle"
    /\ calls[4].outcome.status = "bad_json"
    /\ all_items # <<>>

(* C10: the items gathered, and the items of the result, are the item lists
   the bundle queries returned, concatenated in the order of the queries,
   which is the order of the order-requests and, within one, of its
   sub-supplies; nothing is merged or dropped. *)
C10_ItemsConcatenated ==
    r_pc \in {"bundles", "returned"} =>
        /\ all_items = Concatenation(BundleCalls)
        /\ \A j, k \in 1..Len(BundleCalls) :
              j < k => Before(BundleCalls[j].at, BundleCalls[k].at)
        /\ r_pc = "returned" => result[1].items = all_items

\* sku 1 came back from two bundle queries: it is in the result twice, each
\* time with its own quantity
C10_Witness ==
    /\ r_pc = "returned"
    /\ Len(BundleCalls) = 2
    /\ Len(result[1].items) = 3
    /\ result[1].items[1].sku = result[1].items[2].sku
    /\ result[1].items[1].quantity # result[1].items[2].quantity

----------------------------------------------------------------------------
(* Which sub-supplies are queried *)

\* the record carries the id: the field is there and is not null
HasId(rec, key) == IF key \in DOMAIN rec THEN rec[key] # Null ELSE FALSE

\* bundle id, drop-off warehouse id and storage warehouse id are all there
CompleteTriple(order, supply) ==
    /\ HasId(supply, "bundle_id")
    /\ IF "drop_off_warehouse" \in DOMAIN order
       THEN HasId(order.drop_off_warehouse, "warehouse_id") ELSE FALSE
    /\ IF "storage_warehouse" \in DOMAIN supply
       THEN HasId(supply.storage_warehouse, "warehouse_id") ELSE FALSE

\* a bundle-contents query was made for sub-supply s of order-request o
Queried(o, s) ==
    \E k \in 1..Len(calls) : calls[k].endpoint = "bundle" /\ calls[k].at = <<o, s>>

\* the loops have gone past sub-supply s of order-request o
Passed(o, s) == Before(<<o, s>>, <<oi, si>>)

(* C11: a bundle-contents query is issued for exactly the sub-supplies that
   have a complete addressing triple: every query made is for a sub-supply
   whose bundle id, drop-off warehouse id and storage warehouse id are all
   there, and every such sub-supply the loops have gone past was queried;
   the others, and the order-requests without sub-supplies, were passed
   without a call. *)
C11_QueriedIffComplete ==
    \A o \in 1..Len(orders) :
        ~NoSupplies(orders[o]) =>
            \A s \in 1..Len(orders[o].supplies) :
                /\ Queried(o, s) => CompleteTriple(orders[o], orders[o].supplies[s])
                /\ Passed(o, s) /\ CompleteTriple(orders[o], orders[o].supplies[s])
                      => Queried(o, s)

----------------------------------------------------------------------------
(* The result of a resolve *)

RECURSIVE SumOfQuantities(_)
\* the quantities the items carry, added up
SumOfQuantities(seq) ==
    IF seq = <<>> THEN 0
    ELSE (IF "quantity" \in DOMAIN Head(seq) THEN Head(seq).quantity ELSE 0)
         + SumOfQuantities(Tail(seq))

\* the id list the search call answered with
SearchedIds ==
    LET body == calls[1].outcome.body
    IN  IF "order_ids" \in DOMAIN body THEN body.order_ids ELSE body.result.order_ids

(* C12: every result returned has total_unique = the length of items,
   total_quantity = the sum of the quantities of items, order_number = the
   order number that was queried and order_ids = the id list the search
   returned (which is also what the expand call was sent). *)
C12_ResultTotals ==
    result # <<>> =>
        /\ result[1].total_unique = Len(result[1].items)
        /\ result[1].total_quantity = SumOfQuantities(result[1].items)
        /\ result[1].order_number = OrderNumber
        /\ calls[1].endpoint = "list" /\ calls[1].sent = result[1].order_number
        /\ result[1].order_ids = SearchedIds
        /\ calls[2].endpoint = "get" /\ calls[2].sent = result[1].order_ids

\* a result of two ids and two items, one of quantity 1 and one that carries
\* no quantity
C12_Witness ==
    /\ r_pc = "returned"
    /\ Len(result[1].order_ids) = 2
    /\ result[1].total_unique = 2
    /\ result[1].total_quantity = 1
    /\ "quantity" \notin DOMAIN result[1].items[2]

----------------------------------------------------------------------------
(* search_supply_orders, get_supply_order_details and get_bundle_items, each
   on one response body *)

ShapeFns == {"search_supply_orders", "get_supply_order_details", "get_bundle_items"}

\* the field each method looks for
Field(fn) ==
    IF fn = "search_supply_orders" THEN "order_ids"
    ELSE IF fn = "get_supply_order_details" THEN "orders" ELSE "items"

\* response bodies: the field at the top level (absent, an empty list, a
\* list), a 'result' wrapper (absent, without the field, with an empty list,
\* with a list), and another key or none
ShapeBodies(f) ==
    LET Tops == {<<>>, f :> <<>>, f :> <<"direct">>}
        Wrappers == {<<>>, "result" :> [has_next |-> FALSE], "result" :> (f :> <<>>),
                     "result" :> (f :> <<"wrapped">>)}
        Others == {<<>>, "total" :> 1}
    IN  {t @@ w @@ o : t \in Tops, w \in Wrappers, o \in Others}

\* raise OzonAPIError(... list(result.keys()))
FormatError(body) == [kind |-> "format", keys |-> DOMAIN body]

\* what the method does with the body _make_request returned
Parse(fn, body) ==
    LET got == IF fn = "search_supply_orders" THEN SearchShape(body)
               ELSE IF fn = "get_supply_order_details" THEN ExpandShape(body)
               ELSE BundleShape(body)
    IN  IF got = <<>>
        THEN [raised |-> TRUE, error |-> FormatError(body)]
        ELSE [raised |-> FALSE, value |-> got[1]]

ParseBody ==
    /\ sh_in # <<>>
    /\ sh_out = <<>>
    /\ sh_out' = <<Parse(sh_in.fn, sh_in.body)>>
    /\ UNCHANGED <<sh_in, mvars, lvars, rvars, pvars, gvars>>

InitShape ==
    /\ ResolverIdle
    /\ items = <<>>
    /\ pdf_dir = <<>>
    /\ output_file = NoFile
    /\ stats = NewStats(items)
    /\ output_pdf = <<>>
    /\ idx = 1
    /\ pc = "idle"
    /\ error = ""
    /\ loc_sku = 0
    /\ found = <<>>
    /\ \E fn \in ShapeFns : \E body \in ShapeBodies(Field(fn)) :
          sh_in = [fn |-> fn, body |-> body]
    /\ sh_out = <<>>
    /\ PipelineIdle
    /\ GuiIdle

NextShape == ParseBody

SpecShape == InitShape /\ [][NextShape]_vars

\* the body carries the field at the top level; under 'result'
Direct(fn, body) == Field(fn) \in DOMAIN body
Wrapped(fn, body) ==
    IF "result" \in DOMAIN body THEN Field(fn) \in DOMAIN body.result ELSE FALSE

(* C13: each of the three methods accepts its list either as a top-level
   field or under 'result': a body with only one of the two shapes yields
   the list of that shape; a body with both yields the list of the shape the
   method looks at first (the top level for search_supply_orders, 'result'
   for get_supply_order_details and get_bundle_items); a body with neither
   makes it raise OzonAPIError naming the top-level keys of the body. *)
C13_EitherShape ==
    sh_out # <<>> =>
        LET fn == sh_in.fn
            body == sh_in.body
            out == sh_out[1]
        IN  /\ (Direct(fn, body) \/ Wrapped(fn, body)) = ~out.raised
            /\ Direct(fn, body) /\ ~Wrapped(fn, body)
                  => out.value = body[Field(fn)]
            /\ Wrapped(fn, body) /\ ~Direct(fn, body)
                  => out.value = body.result[Field(fn)]
            /\ Direct(fn, body) /\ Wrapped(fn, body)
                  => out.value = IF fn = "search_supply_orders"
                                 THEN body[Field(fn)] ELSE body.result[Field(fn)]
            /\ out.raised => out.error.keys = DOMAIN body

\* search_supply_orders was given both shapes and took the top-level list
C13_Witness ==
    /\ sh_out # <<>>
    /\ sh_in.fn = "search_supply_orders"
    /\ Direct(sh_in.fn, sh_in.body)
    /\ Wrapped(sh_in.fn, sh_in.body)
    /\ sh_in.body.result.order_ids = <<"wrapped">>
    /\ sh_out[1].value = <<"direct">>

----------------------------------------------------------------------------
(* PDFProcessor.extract_zip, cleanup and __exit__ *)

MaxDirs == 3      \* names tempfile.mkdtemp can pick from
MaxExtracts == 2  \* most calls of extract_zip on one PDFProcessor

DirNames == 1..MaxDirs

\* what zip_path can point at: nothing; a file that is not a ZIP container; a
\* ZIP whose extraction ends in BadZipFile after some files were written; a
\* ZIP whose extraction ends in another exception; a sound archive
ArchiveKinds == {"absent", "not_zip", "corrupt", "failing", "good"}

\* 1.pdf of a kind whose copies can fail; 1.pdf without pages and an
\* OZN12.pdf that does not parse; a one-page 1.pdf and a two-page OZN12.pdf
FilesA == PossibleNames(1)[1] :> "fragile"
FilesC == (PossibleNames(1)[1] :> "single") @@ (PossibleNames(12)[2] :> "multi")
FilesB == (PossibleNames(1)[1] :> "empty") @@ (PossibleNames(12)[2] :> "corrupt")

Archives ==
    { [kind |-> "absent", files |-> <<>>],
      [kind |-> "not_zip", files |-> <<>>],
      [kind |-> "corrupt", files |-> FilesA],
      [kind |-> "failing", files |-> <<>>],
      [kind |-> "good", files |-> FilesA],
      [kind |-> "good", files |-> FilesB],
      [kind |-> "good", files |-> FilesC] }

\* the exception raised inside the try block of extract_zip, by kind of archive
Inner(kind) ==
    IF kind = "absent" THEN [type |-> "PDFProcessorError", msg |-> <<"not_found">>]
    ELSE IF kind = "not_zip" THEN [type |-> "PDFProcessorError", msg |-> <<"not_zip">>]
    ELSE IF kind = "corrupt" THEN [type |-> "BadZipFile", msg |-> <<"bad_zip">>]
    ELSE [type |-> "OSError", msg |-> <<"os">>]

\* a slip: the exception is let through as it is
ExtractHandler_reraise(exc) == exc

\* the two except clauses of extract_zip: BadZipFile, then Exception (which
\* also takes the PDFProcessorError raised by the two checks)
ExtractHandler(exc) ==
    IF exc.type = "BadZipFile"
    THEN [type |-> "PDFProcessorError", msg |-> <<"corrupt_archive">> \o exc.msg]
    ELSE [type |-> "PDFProcessorError", msg |-> <<"extract_failed">> \o exc.msg]

\* the checks before tempfile.mkdtemp: exists(), is_zipfile()
RejectedEarly(kind) == kind \in {"absent", "not_zip"}

\* one access of a run to a temporary directory
Touch(r, d, owner, op) == [run |-> r, dir |-> d, owner |-> owner, op |-> op]

\* the record of one call of extract_zip
Extracted(r, kind, before, after, created, raised, dirs) ==
    [run |-> r, zip |-> kind, before |-> before, after |-> after,
     created |-> created, raised |-> raised, dirs_before |-> DOMAIN disk,
     dirs_after |-> dirs]

\* a slip: any name will do, taken or not
FreeDirs_any(dsk) == DirNames

\* tempfile.mkdtemp creates a directory that did not exist
FreeDirs(dsk) == DirNames \ DOMAIN dsk

\* who made directory d, for a run r that is about to create it
OwnerOf(dsk, d, r) == IF d \in DOMAIN dsk THEN dsk[d].owner ELSE r

\* extract_zip called by run r on archive z; the run goes on at okpc when it
\* returns and at failpc when it raises
ExtractZip(r, z, okpc, failpc) ==
    IF RejectedEarly(z.kind)
    THEN /\ extracts' = Append(extracts,
                Extracted(r, z.kind, temp_dir[r], temp_dir[r], <<>>,
                          <<ExtractHandler(Inner(z.kind))>>, DOMAIN disk))
         /\ p_exc' = [p_exc EXCEPT ![r] = <<ExtractHandler(Inner(z.kind))>>]
         /\ p_pc' = [p_pc EXCEPT ![r] = failpc]
         /\ UNCHANGED <<temp_dir, disk, touched>>
    ELSE \E d \in FreeDirs(disk) :
         /\ temp_dir' = [temp_dir EXCEPT ![r] = <<d>>]
         /\ disk' = disk @@ (d :> [owner |-> r, files |-> z.files])
         /\ touched' = touched \cup {Touch(r, d, OwnerOf(disk, d, r), "extract")}
         /\ IF z.kind = "good"
            THEN /\ extracts' = Append(extracts,
                        Extracted(r, z.kind, temp_dir[r], <<d>>, <<d>>, <<>>,
                                  DOMAIN disk \cup {d}))
                 /\ p_exc' = p_exc
                 /\ p_pc' = [p_pc EXCEPT ![r] = okpc]
            ELSE /\ extracts' = Append(extracts,
                        Extracted(r, z.kind, temp_dir[r], <<d>>, <<d>>,
                                  <<ExtractHandler(Inner(z.kind))>>,
                                  DOMAIN disk \cup {d}))
                 /\ p_exc' = [p_exc EXCEPT ![r] = <<ExtractHandler(Inner(z.kind))>>]
                 /\ p_pc' = [p_pc EXCEPT ![r] = failpc]

\* a slip: the directory is left where it is
Rmtree_keeps(dsk, d) == dsk

\* shutil.rmtree(self.temp_dir)
Rmtree(dsk, d) == [x \in DOMAIN dsk \ {d} |-> dsk[x]]

\* if self.temp_dir and self.temp_dir.exists()
HasTempDir(r) == IF temp_dir[r] = None THEN FALSE ELSE temp_dir[r][1] \in DOMAIN disk

\* cleanup(), as __exit__ calls it
Cleanup(r) ==
    IF HasTempDir(r)
    THEN /\ disk' = Rmtree(disk, temp_dir[r][1])
         /\ touched' = touched \cup
               {Touch(r, temp_dir[r][1], disk[temp_dir[r][1]].owner, "rmtree")}
    ELSE UNCHANGED <<disk, touched>>

----------------------------------------------------------------------------
(* One PDFProcessor used as a context manager: any calls of extract_zip
   inside the with block, then __exit__ *)

\* processor.extract_zip(zip_path) inside the with block; an exception it
\* raises ends the block
ScopeExtract ==
    /\ p_pc[1] = "scope"
    /\ Len(extracts) < MaxExtracts
    /\ \E z \in Archives : ExtractZip(1, z, "scope", "exit")
    /\ UNCHANGED <<p_ret, mode, print_out, exit_code>>
    /\ UNCHANGED <<mvars, lvars, rvars, svars, gvars>>

\* the with block ends
ScopeLeave ==
    /\ p_pc[1] = "scope"
    /\ p_pc' = [p_pc EXCEPT ![1] = "exit"]
    /\ UNCHANGED <<temp_dir, p_exc, p_ret, disk, extracts, touched, mode,
                   print_out, exit_code>>
    /\ UNCHANGED <<mvars, lvars, rvars, svars, gvars>>

\* __exit__: self.cleanup()
ScopeExit ==
    /\ p_pc[1] = "exit"
    /\ Cleanup(1)
    /\ p_pc' = [p_pc EXCEPT ![1] = "left"]
    /\ UNCHANGED <<temp_dir, p_exc, p_ret, extracts, mode, print_out, exit_code>>
    /\ UNCHANGED <<mvars, lvars, rvars, svars, gvars>>

\* the merger is not running
MergerIdle ==
    /\ items = <<>>
    /\ pdf_dir = <<>>
    /\ output_file = NoFile
    /\ stats = NewStats(items)
    /\ output_pdf = <<>>
    /\ idx = 1
    /\ pc = "idle"
    /\ error = ""
    /\ loc_sku = 0
    /\ found = <<>>

InitScope ==
    /\ MergerIdle
    /\ ResolverIdle
    /\ ShapeIdle
    /\ GuiIdle
    /\ p_pc = [r \in Runs |-> IF r = 1 THEN "scope" ELSE "idle"]
    /\ temp_dir = [r \in Runs |-> None]
    /\ p_exc = [r \in Runs |-> <<>>]
    /\ p_ret = [r \in Runs |-> <<>>]
    /\ disk = <<>>
    /\ extracts = <<>>
    /\ touched = {}
    /\ mode = <<>>
    /\ print_out = <<>>
    /\ exit_code = <<>>

NextScope ==
    \/ ScopeExtract
    \/ ScopeLeave
    \/ ScopeExit

SpecScope == InitScope /\ [][NextScope]_vars

\* the directories the calls of extract_zip created
CreatedDirs == {extracts[k].created[1] : k \in {j \in 1..Len(extracts) : extracts[j].created # <<>>}}

(* C15: after the with block of a PDFProcessor has ended, normally or
   through an exception, every temporary directory created by the calls of
   extract_zip made inside it has been deleted. *)
C15_AllReleased ==
    p_pc[1] = "left" => CreatedDirs \cap DOMAIN disk = {}

(* C16: extract_zip on a path that does not exist or is not a ZIP container
   raises PDFProcessorError, creates no temporary directory and leaves
   temp_dir as it was; on a corrupt archive it raises PDFProcessorError with
   an error that differs from the one for a missing path; whatever it raises
   is a PDFProcessorError. *)
C16_ExtractErrors ==
    \A k \in 1..Len(extracts) :
        /\ extracts[k].zip \in {"absent", "not_zip"} =>
              /\ extracts[k].raised # <<>>
              /\ extracts[k].created = <<>>
              /\ extracts[k].dirs_after = extracts[k].dirs_before
              /\ extracts[k].after = extracts[k].before
        /\ extracts[k].zip = "corrupt" =>
              /\ extracts[k].raised # <<>>
              /\ extracts[k].raised # <<ExtractHandler(Inner("absent"))>>
        /\ extracts[k].raised # <<>> => extracts[k].raised[1].type = "PDFProcessorError"
        /\ extracts[k].raised = <<>> => extracts[k].zip = "good"

\* a first call unpacked an archive; a second call, on a path that is not
\* there, raised and left temp_dir at the directory of the first
C16_Witness ==
    /\ Len(extracts) = 2
    /\ extracts[1].zip = "good"
    /\ extracts[2].zip = "absent"
    /\ extracts[2].raised # <<>>
    /\ extracts[2].before = extracts[1].created
    /\ temp_dir[1] = extracts[1].created

----------------------------------------------------------------------------
(* PDFProcessor.print_pdf *)

\* platform.system()
Platforms == {"Windows", "Darwin", "Linux", "Other"}

\* what can happen inside the printing function of a platform: the job is
\* submitted; pywin32 is not installed (ImportError); there is no printer or
\* the OS turns the job down (an exception of win32print or win32api, a
\* CalledProcessError of lpr or lp); the lpr or lp command is not there
\* (FileNotFoundError)
PrintEvents(system) ==
    IF system = "Windows" THEN {"sent", "no_module", "rejected"}
    ELSE IF system \in {"Darwin", "Linux"} THEN {"sent", "rejected", "no_command"}
    ELSE {"none"}

\* _print_pdf_windows catches ImportError and Exception; _print_pdf_macos and
\* _print_pdf_linux catch CalledProcessError only
PlatformPrint(system, event) ==
    IF event = "sent" THEN [raised |-> FALSE, value |-> TRUE]
    ELSE IF system = "Windows" THEN [raised |-> FALSE, value |-> FALSE]
    ELSE IF event = "rejected" THEN [raised |-> FALSE, value |-> FALSE]
    ELSE [raised |-> TRUE, value |-> FALSE]

\* a slip: print_pdf without its own try/except
PrintPdf_unguarded(system, event) == PlatformPrint(system, event)

\* print_pdf: the dispatch on the platform inside try/except Exception
PrintPdf(system, event) ==
    IF system \notin {"Windows", "Darwin", "Linux"}
    THEN [raised |-> FALSE, value |-> FALSE]
    ELSE IF PlatformPrint(system, event).raised
         THEN [raised |-> FALSE, value |-> FALSE]
         ELSE PlatformPrint(system, event)

----------------------------------------------------------------------------
(* OzonAPI.validate_credentials *)

\* the body of the probe: one supply order, any order number
Probe == [states |-> <<"READY_TO_SUPPLY">>, limit |-> 1]

\* a slip: only an HTTP error is taken for a failure
ValidateCredentials_httpOnly(outcome) ==
    IF outcome.status = "ok" THEN [raised |-> FALSE, value |-> TRUE]
    ELSE IF outcome.status = "http_error" THEN [raised |-> FALSE, value |-> FALSE]
    ELSE [raised |-> TRUE, value |-> FALSE]

\* validate_credentials: True when _make_request returns, False on OzonAPIError
ValidateCredentials(outcome) ==
    IF outcome.status = "ok" THEN [raised |-> FALSE, value |-> TRUE]
    ELSE [raised |-> FALSE, value |-> FALSE]

----------------------------------------------------------------------------
(* main *)

\* what main is asked to do: --validate; --order-number and --zip-path; no
\* argument (interactive mode); only one of the two arguments.  config_ok: the
\* client id and the API key are set.  auto_print: --print, or the answer y
Modes ==
    [op : {"validate", "params", "interactive", "incomplete"},
     config_ok : BOOLEAN, auto_print : BOOLEAN]

\* what the user does at the prompts of interactive_mode
Inputs == {"ok", "no_order", "no_zip", "interrupt"}

\* a slip: the exit code does not look at the outcome
ExitCode_zero(success) == 0

\* return 0 if success else 1
ExitCode(success) == IF success THEN 0 ELSE 1

\* an exception in flight
Exc(type) == <<[type |-> type, msg |-> <<>>]>>

MainOver(code) ==
    /\ exit_code' = <<code>>
    /\ p_pc' = [p_pc EXCEPT ![1] = "done"]

\* main --validate: Config.validate, then validate_credentials
MainValidate ==
    /\ p_pc[1] = "main"
    /\ mode.op = "validate"
    /\ IF ~mode.config_ok
       THEN MainOver(1) /\ UNCHANGED <<calls, p_exc, p_ret>>
       ELSE \E outcome \in {Ok([order_ids |-> <<>>])} \cup {Failed(k) : k \in RequestFailures} :
               /\ calls' = Append(calls, Call("list", <<0, 0>>, Probe, outcome))
               /\ IF ValidateCredentials(outcome).raised
                  THEN /\ p_exc' = [p_exc EXCEPT ![1] = Exc("Exception")]
                       /\ p_ret' = p_ret
                       /\ MainOver(1)
                  ELSE /\ p_exc' = p_exc
                       /\ p_ret' = [p_ret EXCEPT ![1] = <<ValidateCredentials(outcome).value>>]
                       /\ MainOver(ExitCode(ValidateCredentials(outcome).value))
    /\ UNCHANGED <<r_pc, r_error, order_ids, orders, oi, si, all_items, result>>
    /\ UNCHANGED <<temp_dir, disk, extracts, touched, mode, print_out>>
    /\ UNCHANGED <<mvars, lvars, svars, gvars>>

\* only one of --order-number and --zip-path
MainIncomplete ==
    /\ p_pc[1] = "main"
    /\ mode.op = "incomplete"
    /\ MainOver(1)
    /\ UNCHANGED <<temp_dir, p_exc, p_ret, disk, extracts, touched, mode, print_out>>
    /\ UNCHANGED <<mvars, lvars, rvars, svars, gvars>>

\* interactive_mode up to its call of process_supply
MainInteractive ==
    /\ p_pc[1] = "main"
    /\ mode.op = "interactive"
    /\ IF ~mode.config_ok
       THEN MainOver(ExitCode(FALSE))
       ELSE \E inp \in Inputs :
               IF inp = "ok"
               THEN p_pc' = [p_pc EXCEPT ![1] = "start"] /\ exit_code' = exit_code
               ELSE MainOver(ExitCode(FALSE))
    /\ UNCHANGED <<temp_dir, p_exc, p_ret, disk, extracts, touched, mode, print_out>>
    /\ UNCHANGED <<mvars, lvars, rvars, svars, gvars>>

\* both arguments given: process_supply is called
MainParams ==
    /\ p_pc[1] = "main"
    /\ mode.op = "params"
    /\ p_pc' = [p_pc EXCEPT ![1] = "start"]
    /\ UNCHANGED <<temp_dir, p_exc, p_ret, disk, extracts, touched, mode,
                   print_out, exit_code>>
    /\ UNCHANGED <<mvars, lvars, rvars, svars, gvars>>

\* process_supply returned: return 0 if success else 1
MainReturn ==
    /\ p_pc[1] = "returned"
    /\ MainOver(ExitCode(p_ret[1][1]))
    /\ UNCHANGED <<temp_dir, p_exc, p_ret, disk, extracts, touched, mode, print_out>>
    /\ UNCHANGED <<mvars, lvars, rvars, svars, gvars>>

\* KeyboardInterrupt left process_supply: interactive_mode returns False on
\* it; with arguments it reaches the handler around main(), sys.exit(1)
MainInterrupted ==
    /\ p_pc[1] = "escaped"
    /\ IF mode.op = "interactive" THEN MainOver(ExitCode(FALSE)) ELSE MainOver(1)
    /\ UNCHANGED <<temp_dir, p_exc, p_ret, disk, extracts, touched, mode, print_out>>
    /\ UNCHANGED <<mvars, lvars, rvars, svars, gvars>>

----------------------------------------------------------------------------
(* process_supply *)

\* api = OzonAPI(): raises OzonAPIError without client id or API key; else
\* get_supply_items_by_order_number is called
Start ==
    /\ p_pc[1] = "start"
    /\ IF mode.config_ok
       THEN /\ r_pc' = "search"
            /\ p_pc' = [p_pc EXCEPT ![1] = "resolve"]
            /\ p_exc' = p_exc
       ELSE /\ r_pc' = r_pc
            /\ p_pc' = [p_pc EXCEPT ![1] = "handler"]
            /\ p_exc' = [p_exc EXCEPT ![1] = Exc("OzonAPIError")]
    /\ UNCHANGED <<r_error, order_ids, orders, oi, si, all_items, result, calls>>
    /\ UNCHANGED <<temp_dir, p_ret, disk, extracts, touched, mode, print_out, exit_code>>
    /\ UNCHANGED <<mvars, lvars, svars, gvars>>

\* if not supply_data or not supply_data.get('items')
NoSupplyData(res) == IF res = <<>> THEN TRUE ELSE Get(res[1], "items", <<>>) = <<>>

\* get_supply_items_by_order_number returned: its locals, and the record of
\* the calls it made, are gone; the result stays.  Return False on an empty
\* one, else `with PDFProcessor()`
Resolved ==
    /\ p_pc[1] = "resolve"
    /\ r_pc = "returned"
    /\ order_ids' = <<>>
    /\ orders' = <<>>
    /\ oi' = 1
    /\ si' = 1
    /\ all_items' = <<>>
    /\ calls' = <<>>
    /\ IF NoSupplyData(result)
       THEN /\ p_ret' = [p_ret EXCEPT ![1] = <<FALSE>>]
            /\ p_pc' = [p_pc EXCEPT ![1] = "returned"]
       ELSE /\ p_ret' = p_ret
            /\ p_pc' = [p_pc EXCEPT ![1] = "extract"]
    /\ UNCHANGED <<r_pc, r_error, result>>
    /\ UNCHANGED <<temp_dir, p_exc, disk, extracts, touched, mode, print_out, exit_code>>
    /\ UNCHANGED <<mvars, lvars, svars, gvars>>

\* get_supply_items_by_order_number raised OzonAPIError
ResolveRaised ==
    /\ p_pc[1] = "resolve"
    /\ r_pc = "raised"
    /\ p_exc' = [p_exc EXCEPT ![1] = Exc("OzonAPIError")]
    /\ p_pc' = [p_pc EXCEPT ![1] = "handler"]
    /\ UNCHANGED <<temp_dir, p_ret, disk, extracts, touched, mode, print_out, exit_code>>
    /\ UNCHANGED <<mvars, lvars, rvars, svars, gvars>>

\* pdf_dir = processor.extract_zip(zip_path)
Extract ==
    /\ p_pc[1] = "extract"
    /\ \E z \in Archives : ExtractZip(1, z, "merge", "exit")
    /\ UNCHANGED <<p_ret, mode, print_out, exit_code>>
    /\ UNCHANGED <<mvars, lvars, rvars, svars, gvars>>

\* merge_pdfs(items, pdf_dir, output_path) is called
StartMerge ==
    /\ p_pc[1] = "merge"
    /\ items' = result[1].items
    /\ pdf_dir' = disk[temp_dir[1][1]].files
    /\ stats' = NewStats(result[1].items)
    /\ output_pdf' = <<>>
    /\ idx' = 1
    /\ pc' = "loop"
    /\ error' = ""
    /\ touched' = touched \cup
          {Touch(1, temp_dir[1][1], disk[temp_dir[1][1]].owner, "merge")}
    /\ p_pc' = [p_pc EXCEPT ![1] = "merging"]
    /\ UNCHANGED <<output_file, loc_sku, found>>
    /\ UNCHANGED <<temp_dir, p_exc, p_ret, disk, extracts, mode, print_out, exit_code>>
    /\ UNCHANGED <<rvars, svars, gvars>>

\* a slip: the file is sent to the printer whether asked for or not
Merged_prints ==
    /\ p_pc[1] = "merging"
    /\ pc = "returned"
    /\ p_pc' = [p_pc EXCEPT ![1] = "print"]
    /\ UNCHANGED <<temp_dir, p_exc, p_ret, disk, extracts, touched, mode,
                   print_out, exit_code>>
    /\ UNCHANGED <<mvars, lvars, rvars, svars, gvars>>

\* merge_pdfs returned its report: print_merge_results, then `if auto_print`
Merged ==
    /\ p_pc[1] = "merging"
    /\ pc = "returned"
    /\ p_pc' = [p_pc EXCEPT ![1] = IF mode.auto_print THEN "print" ELSE "exit"]
    /\ UNCHANGED <<temp_dir, p_exc, p_ret, disk, extracts, touched, mode,
                   print_out, exit_code>>
    /\ UNCHANGED <<mvars, lvars, rvars, svars, gvars>>

\* merge_pdfs raised PDFProcessorError
MergeRaised ==
    /\ p_pc[1] = "merging"
    /\ pc = "raised"
    /\ p_exc' = [p_exc EXCEPT ![1] = Exc("PDFProcessorError")]
    /\ p_pc' = [p_pc EXCEPT ![1] = "exit"]
    /\ UNCHANGED <<temp_dir, p_ret, disk, extracts, touched, mode, print_out, exit_code>>
    /\ UNCHANGED <<mvars, lvars, rvars, svars, gvars>>

\* if processor.print_pdf(output_path, printer): only the log line differs
PrintStep ==
    /\ p_pc[1] = "print"
    /\ \E system \in Platforms : \E event \in PrintEvents(system) :
          /\ print_out' = <<[system |-> system, event |-> event,
                             raised |-> PrintPdf(system, event).raised,
                             value |-> PrintPdf(system, event).value]>>
          /\ p_exc' = IF PrintPdf(system, event).raised
                      THEN [p_exc EXCEPT ![1] = Exc("Exception")]
                      ELSE p_exc
    /\ p_pc' = [p_pc EXCEPT ![1] = "exit"]
    /\ UNCHANGED <<temp_dir, p_ret, disk, extracts, touched, mode, exit_code>>
    /\ UNCHANGED <<mvars, lvars, rvars, svars, gvars>>

\* the with block is left: __exit__ calls cleanup; without an exception
\* process_supply returns True
LeaveWith ==
    /\ p_pc[1] = "exit"
    /\ Cleanup(1)
    /\ IF p_exc[1] = <<>>
       THEN /\ p_ret' = [p_ret EXCEPT ![1] = <<TRUE>>]
            /\ p_pc' = [p_pc EXCEPT ![1] = "returned"]
       ELSE /\ p_ret' = p_ret
            /\ p_pc' = [p_pc EXCEPT ![1] = "handler"]
    /\ UNCHANGED <<temp_dir, p_exc, extracts, mode, print_out, exit_code>>
    /\ UNCHANGED <<mvars, lvars, rvars, svars, gvars>>

\* except OzonAPIError, PDFProcessorError, Exception
Caught(exc) == exc.type \in {"OzonAPIError", "PDFProcessorError", "Exception"}

\* the except clauses of process_supply: return False; KeyboardInterrupt is
\* none of them and leaves process_supply
Handler ==
    /\ p_pc[1] = "handler"
    /\ IF Caught(p_exc[1][1])
       THEN /\ p_ret' = [p_ret EXCEPT ![1] = <<FALSE>>]
            /\ p_pc' = [p_pc EXCEPT ![1] = "returned"]
       ELSE /\ p_ret' = p_ret
            /\ p_pc' = [p_pc EXCEPT ![1] = "escaped"]
    /\ UNCHANGED <<temp_dir, p_exc, disk, extracts, touched, mode, print_out, exit_code>>
    /\ UNCHANGED <<mvars, lvars, rvars, svars, gvars>>

\* inside the with block
InWith(r) == p_pc[r] \in {"extract", "merge", "merging", "print"}

\* the user interrupts process_supply (KeyboardInterrupt): the call in
\* progress is abandoned; inside the with block __exit__ still runs
Interrupt ==
    /\ p_pc[1] = "resolve" \/ InWith(1)
    /\ p_exc' = [p_exc EXCEPT ![1] = Exc("KeyboardInterrupt")]
    /\ p_pc' = [p_pc EXCEPT ![1] = IF InWith(1) THEN "exit" ELSE "handler"]
    /\ IF r_pc \in {"search", "expand", "bundles"}
       THEN r_pc' = "raised" /\ r_error' = "interrupted"
       ELSE r_pc' = r_pc /\ r_error' = r_error
    /\ IF pc = "loop"
       THEN pc' = "raised" /\ error' = "interrupted"
       ELSE pc' = pc /\ error' = error
    /\ UNCHANGED <<order_ids, orders, oi, si, all_items, result, calls>>
    /\ UNCHANGED <<items, pdf_dir, output_file, stats, output_pdf, idx, loc_sku, found>>
    /\ UNCHANGED <<temp_dir, p_ret, disk, extracts, touched, mode, print_out, exit_code>>
    /\ UNCHANGED <<svars, gvars>>

InitPipeline ==
    /\ MergerIdle
    /\ ResolverIdle
    /\ ShapeIdle
    /\ GuiIdle
    /\ p_pc = [r \in Runs |-> IF r = 1 THEN "main" ELSE "idle"]
    /\ temp_dir = [r \in Runs |-> None]
    /\ p_exc = [r \in Runs |-> <<>>]
    /\ p_ret = [r \in Runs |-> <<>>]
    /\ disk = <<>>
    /\ extracts = <<>>
    /\ touched = {}
    /\ mode \in Modes
    /\ print_out = <<>>
    /\ exit_code = <<>>

NextPipeline ==
    \/ MainValidate
    \/ MainIncomplete
    \/ MainInteractive
    \/ MainParams
    \/ Start
    \/ NextResolve
    \/ Resolved
    \/ ResolveRaised
    \/ Extract
    \/ StartMerge
    \/ NextMerge
    \/ Merged
    \/ MergeRaised
    \/ PrintStep
    \/ LeaveWith
    \/ Handler
    \/ Interrupt
    \/ MainReturn
    \/ MainInterrupted

SpecPipeline == InitPipeline /\ [][NextPipeline]_vars

----------------------------------------------------------------------------
(* What the claims about a pipeline run speak of *)

\* process_supply is past its with block
PastWith == p_pc[1] \in {"handler", "returned", "escaped", "done"}

(* C14: once extract_zip has created the temporary directory, the directory
   is deleted by the time the run finishes, whatever way the with block was
   left: after a merge that returned, after a merge that raised, after an
   extraction that failed midway, after printing, after any other
   exception; and no temporary directory exists once the block is left. *)
C14_TempDirDeleted ==
    PastWith => /\ CreatedDirs \cap DOMAIN disk = {}
                /\ DOMAIN disk = {}

\* the archive was corrupt: the directory was created, the extraction
\* failed, process_supply returned False and the directory is gone
C14_Witness ==
    /\ Len(extracts) = 1
    /\ extracts[1].zip = "corrupt"
    /\ extracts[1].created # <<>>
    /\ p_ret[1] = <<FALSE>>
    /\ DOMAIN disk = {}

(* C17: print_pdf never raises, and returns False whenever the job was not
   submitted (unsupported platform, missing module or command, no printer,
   job turned down); whatever print_pdf returned, process_supply returns
   True after the merge that returned and the output file stays as merge_pdfs
   wrote it. *)
C17_PrintNeverFails ==
    print_out # <<>> =>
        /\ ~print_out[1].raised
        /\ print_out[1].value = (print_out[1].event = "sent")
        /\ pc = "returned"
        /\ output_file = [exists |-> TRUE, pages |-> output_pdf]
        /\ p_pc[1] \in {"exit", "returned", "done"}
        /\ p_ret[1] # <<>> => p_ret[1] = <<TRUE>>
        /\ exit_code # <<>> => exit_code = <<0>>

\* lp is not installed: print_pdf gave False and process_supply returned True
C17_Witness ==
    /\ print_out # <<>>
    /\ print_out[1].system = "Linux"
    /\ print_out[1].event = "no_command"
    /\ print_out[1].value = FALSE
    /\ p_ret[1] = <<TRUE>>
    /\ output_file.exists

(* C19: validate_credentials never raises; it makes exactly one call, the
   search-list call with limit 1, returns True when the call succeeds and
   False when it fails with an HTTP error, a transport failure or an
   unparseable body. *)
C19_ValidateNeverRaises ==
    (mode.op = "validate" /\ mode.config_ok /\ p_pc[1] = "done") =>
        /\ p_exc[1] = <<>>
        /\ Len(calls) = 1
        /\ calls[1].endpoint = "list"
        /\ calls[1].sent = Probe
        /\ p_ret[1] = <<calls[1].outcome.status = "ok">>
        /\ calls[1].outcome.status \in RequestFailures => p_ret[1] = <<FALSE>>

\* the probe failed on the transport: False came back
C19_Witness ==
    /\ mode.op = "validate"
    /\ p_pc[1] = "done"
    /\ Len(calls) = 1
    /\ calls[1].outcome.status = "transport"
    /\ p_ret[1] = <<FALSE>>

\* the operation main was asked for succeeded: the credentials were
\* validated; or the pipeline ran to its end and the output file is written
Succeeded ==
    IF mode.op = "validate"
    THEN mode.config_ok /\ Len(calls) = 1 /\ CallOk(calls[1])
    ELSE /\ mode.op \in {"params", "interactive"}
         /\ mode.config_ok
         /\ pc = "returned"
         /\ output_file = [exists |-> TRUE, pages |-> output_pdf]
         /\ p_exc[1] = <<>>

(* C20: main ends with exit code 0 exactly when the operation succeeded, and
   with 1 on every other path: configuration error, resolution error,
   assembly error, unexpected exception, incomplete arguments, interrupt. *)
C20_ExitCode ==
    exit_code # <<>> =>
        /\ exit_code[1] \in {0, 1}
        /\ (exit_code[1] = 0) = Succeeded

\* interactive mode, the merge wrote the file, printing failed: exit code 0
C20_Witness ==
    /\ exit_code = <<0>>
    /\ mode.op = "interactive"
    /\ print_out # <<>>
    /\ ~print_out[1].value

----------------------------------------------------------------------------
(* Two worker threads of the GUI, each running _process_supply_thread.  The
   resolver and merge_pdfs appear here by what they do to the temporary
   directories: the first does nothing to them, the second reads pdf_dir. *)

\* api.get_supply_items_by_order_number: a result with items, or OzonAPIError
WorkerResolve(r) ==
    /\ p_pc[r] = "thread"
    /\ \E ok \in BOOLEAN :
          IF ok
          THEN p_pc' = [p_pc EXCEPT ![r] = "extract"] /\ p_exc' = p_exc
          ELSE /\ p_pc' = [p_pc EXCEPT ![r] = "finally"]
               /\ p_exc' = [p_exc EXCEPT ![r] = Exc("OzonAPIError")]
    /\ UNCHANGED <<temp_dir, p_ret, disk, extracts, touched, mode, print_out, exit_code>>
    /\ UNCHANGED <<mvars, lvars, rvars, svars, gvars>>

\* with PDFProcessor() as processor: pdf_dir = processor.extract_zip(zip_path)
WorkerExtract(r) ==
    /\ p_pc[r] = "extract"
    /\ \E z \in Archives : ExtractZip(r, z, "merge", "exit")
    /\ UNCHANGED <<p_ret, mode, print_out, exit_code>>
    /\ UNCHANGED <<mvars, lvars, rvars, svars, gvars>>

\* processor.merge_pdfs(items, pdf_dir, output_path) reads the directory
\* extract_zip returned; it returns, and print_pdf may follow, or it raises
WorkerMerge(r) ==
    /\ p_pc[r] = "merge"
    /\ touched' = touched \cup
          {Touch(r, temp_dir[r][1], disk[temp_dir[r][1]].owner, "merge")}
    /\ \E ok \in BOOLEAN :
          p_exc' = IF ok THEN p_exc
                   ELSE [p_exc EXCEPT ![r] = Exc("PDFProcessorError")]
    /\ p_pc' = [p_pc EXCEPT ![r] = "exit"]
    /\ UNCHANGED <<temp_dir, p_ret, disk, extracts, mode, print_out, exit_code>>
    /\ UNCHANGED <<mvars, lvars, rvars, svars, gvars>>

\* the with block is left: __exit__ calls cleanup
WorkerExit(r) ==
    /\ p_pc[r] = "exit"
    /\ Cleanup(r)
    /\ p_pc' = [p_pc EXCEPT ![r] = "finally"]
    /\ UNCHANGED <<temp_dir, p_exc, p_ret, extracts, mode, print_out, exit_code>>
    /\ UNCHANGED <<mvars, lvars, rvars, svars, gvars>>

\* the message box, then finally: set_processing(False)
WorkerDone(r) ==
    /\ p_pc[r] = "finally"
    /\ p_pc' = [p_pc EXCEPT ![r] = "done"]
    /\ UNCHANGED <<temp_dir, p_exc, p_ret, disk, extracts, touched, mode,
                   print_out, exit_code>>
    /\ UNCHANGED <<mvars, lvars, rvars, svars, gvars>>

InitRuns ==
    /\ MergerIdle
    /\ ResolverIdle
    /\ ShapeIdle
    /\ GuiIdle
    /\ p_pc = [r \in Runs |-> "thread"]
    /\ temp_dir = [r \in Runs |-> None]
    /\ p_exc = [r \in Runs |-> <<>>]
    /\ p_ret = [r \in Runs |-> <<>>]
    /\ disk = <<>>
    /\ extracts = <<>>
    /\ touched = {}
    /\ mode = <<>>
    /\ print_out = <<>>
    /\ exit_code = <<>>

NextRuns ==
    \E r \in Runs :
        \/ WorkerResolve(r)
        \/ WorkerExtract(r)
        \/ WorkerMerge(r)
        \/ WorkerExit(r)
        \/ WorkerDone(r)

SpecRuns == InitRuns /\ [][NextRuns]_vars

\* run r holds a temporary directory: it is inside its with block, past
\* extract_zip's mkdtemp
Holds(r) == p_pc[r] \in {"merge", "exit"} /\ HasTempDir(r)

(* C18: with two runs in flight, each call of extract_zip creates a
   directory of the run's own, and every access of a run to a temporary
   directory (unpacking into it, reading it in merge_pdfs, removing it) is
   to a directory that this run created: two runs never hold the same
   directory, and a run's directory is there until that run removes it. *)
C18_OwnDirectory ==
    /\ \A t \in touched : t.owner = t.run
    /\ \A k \in 1..Len(extracts) :
          extracts[k].created # <<>> =>
              extracts[k].created[1] \notin extracts[k].dirs_before
    /\ (Holds(1) /\ Holds(2)) => temp_dir[1] # temp_dir[2]
    /\ \A r \in Runs : Holds(r) => disk[temp_dir[r][1]].owner = r

\* both runs hold a directory at the same time and have read it
C18_Witness ==
    /\ Holds(1) /\ Holds(2)
    /\ p_pc[1] = "exit" /\ p_pc[2] = "exit"
    /\ \E t \in touched : t.run = 1 /\ t.op = "merge"
    /\ \E t \in touched : t.run = 2 /\ t.op = "merge"

----------------------------------------------------------------------------
(* The pages of the output document, step by step (SpecMerge) *)

\* a step of the item loop: the item at idx has been dealt with
ItemStep == pc = "loop" /\ idx' = idx + 1

\* k copies of page index 0 of file f
Copies(f, k) == [j \in 1..k |-> [file |-> f, index |-> 0]]

(* C21: the output document is built from nothing; a step that counts its
   item as processed appends exactly `quantity` copies of page index 0 of a
   file located for that item, every other step appends nothing, and the
   file written is the document so built.  Hence the document is, item by
   item in input order, one run of copies per processed item. *)
C21_OutputPages ==
    /\ []((pc = "loop" /\ idx = 1) => output_pdf = <<>>)
    /\ [][/\ ItemStep =>
               IF stats'.processed_items = stats.processed_items + 1
               THEN \E f \in Candidates(items[idx]) :
                       output_pdf' =
                           output_pdf \o Copies(f, QuantityOf(items[idx]))
               ELSE output_pdf' = output_pdf
          /\ ~ItemStep => output_pdf' = output_pdf
          /\ (pc = "loop" /\ pc' = "returned") =>
                 output_file'.pages = output_pdf]_vars

\* the same, with the copies that a failing add_page leaves behind allowed:
\* an item that is not counted as processed appends fewer than `quantity`
\* copies of page index 0 of its file (none if it has no usable file)
OrderedRuns ==
    /\ []((pc = "loop" /\ idx = 1) => output_pdf = <<>>)
    /\ [][/\ ItemStep =>
               \E f \in Candidates(items[idx]) \cup {None} :
                  \E k \in 0..QuantityOf(items[idx]) :
                     /\ output_pdf' = output_pdf \o Copies(f, k)
                     /\ stats'.processed_items = stats.processed_items + 1
                            => k = QuantityOf(items[idx])
                     /\ stats'.processed_items = stats.processed_items
                            => k < QuantityOf(items[idx]) \/ k = 0
          /\ ~ItemStep => output_pdf' = output_pdf
          /\ (pc = "loop" /\ pc' = "returned") =>
                 output_file'.pages = output_pdf]_vars

(* C24: total_pages is the number of pages in the output document at every
   point of the merge, and a step that counts its item in skipped_items
   appends no page to the output document. *)
C24_PagesCounted ==
    /\ [](stats.total_pages = Len(output_pdf))
    /\ [][stats'.skipped_items = stats.skipped_items + 1
              => output_pdf' = output_pdf]_vars

----------------------------------------------------------------------------
(* The order of the remote calls within one resolve (SpecResolve) *)

\* the positions in calls of the calls to one endpoint
CallsTo(endpoint) == {k \in 1..Len(calls) : calls[k].endpoint = endpoint}

\* the call at position k came back with a body
CameBack(k) == calls[k].outcome.status = "ok"

(* C22: the first remote call is the one search call, and nothing happens
   before it; the expand call is made at most once, as the second call, only
   after the search returned a non-empty id list, and is sent exactly the
   ids the search returned; every bundle call comes after an expand call
   that returned a non-empty list of order details. *)
C22_CallOrder ==
    /\ r_pc # "search" => calls # <<>>
    /\ CallsTo("list") \subseteq {1}
    /\ calls # <<>> => calls[1].endpoint = "list"
    /\ CallsTo("get") \subseteq {2}
    /\ \A k \in CallsTo("get") :
          /\ CameBack(1)
          /\ SearchShape(calls[1].outcome.body) # <<>>
          /\ SearchShape(calls[1].outcome.body)[1] # <<>>
          /\ calls[k].sent = SearchShape(calls[1].outcome.body)[1]
    /\ \A k \in CallsTo("bundle") :
          /\ k >= 3
          /\ 2 \in CallsTo("get")
          /\ CameBack(2)
          /\ ExpandShape(calls[2].outcome.body) # <<>>
          /\ ExpandShape(calls[2].outcome.body)[1] # <<>>

\* search, then one expand call carrying two ids, then two bundle calls
C22_Witness ==
    /\ Len(calls) = 4
    /\ Len(calls[2].sent) = 2
    /\ CallsTo("bundle") = {3, 4}
    /\ r_pc = "returned"

----------------------------------------------------------------------------
(* The order of the steps of process_supply (SpecPipeline) *)

\* the steps that have failed: the resolver raised OzonAPIError, extract_zip
\* raised, merge_pdfs raised, print_pdf came back with False
ResolveFailed == r_pc = "raised" /\ r_error # "interrupted"
ExtractFailed == extracts # <<>> /\ extracts[Len(extracts)].raised # <<>>
MergeFailed == pc = "raised" /\ error # "interrupted"
PrintFailed == print_out # <<>> /\ ~print_out[1].value

\* the user interrupted the run
Interrupted == p_exc[1] = Exc("KeyboardInterrupt")

\* process_supply has returned to main
HasReturned == p_pc[1] \in {"returned", "done"} /\ mode.op # "validate"

\* extract_zip is called only after the resolver returned items; merge_pdfs
\* only after the one call of extract_zip returned, on these items and this
\* directory; print_pdf only after merge_pdfs returned, and only if asked for;
\* after a step has failed no later step is taken
StepsInOrder ==
    /\ (extracts # <<>> \/ disk # <<>>) =>
          /\ r_pc = "returned"
          /\ result # <<>>
          /\ result[1].items # <<>>
    /\ pc # "idle" =>
          /\ Len(extracts) = 1
          /\ extracts[1].raised = <<>>
          /\ items = result[1].items
    /\ print_out # <<>> => pc = "returned" /\ mode.auto_print
    /\ ResolveFailed => extracts = <<>> /\ pc = "idle" /\ print_out = <<>>
    /\ ExtractFailed => pc = "idle" /\ print_out = <<>>
    /\ MergeFailed => print_out = <<>>

(* C23, as the code has it: the steps occur in the order resolve, extract,
   merge, print, each only after the one before it returned, print only when
   asked for; a failure of resolve, extract or merge prevents all later
   steps and makes process_supply return False; a print_pdf that fails is
   only logged, and process_supply returns True. *)
C23_StepOrder ==
    /\ StepsInOrder
    /\ (HasReturned /\ ~Interrupted /\ (ResolveFailed \/ ExtractFailed \/ MergeFailed))
          => p_ret[1] = <<FALSE>>
    /\ (HasReturned /\ ~Interrupted /\ print_out # <<>>) => p_ret[1] = <<TRUE>>

(* C23, as stated: the steps occur in the order resolve, extract, merge,
   print, and a failure of any of the four steps prevents all later steps
   and makes process_supply return False. *)
C23_AnyFailureReturnsFalse ==
    /\ StepsInOrder
    /\ (HasReturned /\ ~Interrupted
          /\ (ResolveFailed \/ ExtractFailed \/ MergeFailed \/ PrintFailed))
          => p_ret[1] = <<FALSE>>

\* all four steps were taken, printing failed, process_supply has returned
C23_Witness ==
    /\ HasReturned
    /\ PrintFailed
    /\ pc = "returned"
    /\ Len(extracts) = 1
    /\ result # <<>>

----------------------------------------------------------------------------
(* The quantity of an item, as the resolver and as merge_pdfs take it
   (SpecPipeline) *)

\* what the resolver added to total_quantity for the item
CountedQuantity(item) == Get(item, "quantity", 0)

(* C25: merge_pdfs, run on the items the resolver returned, appends for
   every item it processes as many pages as the resolver counted for that
   item in total_quantity, an item without a quantity field included; and a
   merge that processed every item reports total_pages equal to the
   total_quantity of the resolved order. *)
C25_QuantitiesAgree ==
    /\ []((pc = "returned" /\ result # <<>>
             /\ stats.processed_items = stats.total_items)
          => stats.total_pages = result[1].total_quantity)
    /\ [][(ItemStep /\ stats'.processed_items = stats.processed_items + 1)
             => Len(output_pdf') = Len(output_pdf) + CountedQuantity(items[idx])]_vars

----------------------------------------------------------------------------
(* OzonBarcodeGUI: the two buttons and the worker threads they start *)

\* how the body of a worker can end: _process_supply_thread in the success
\* box, in the early return on an order without items, in one of its three
\* except clauses; _validate_api_thread with either answer or in its except
Outcomes(kind) ==
    IF kind = "process"
    THEN {"success", "no_items", "api_error", "pdf_error", "error"}
    ELSE {"valid", "invalid", "error"}

\* set_processing: the flag, then both buttons
SetProcessing(flag) ==
    /\ is_processing' = flag
    /\ process_btn' = IF flag THEN "disabled" ELSE "normal"
    /\ validate_btn' = IF flag THEN "disabled" ELSE "normal"

\* threading.Thread(target=...).start()
StartThread(t, kind) ==
    /\ threads[t] = NoThread
    /\ threads' = [threads EXCEPT ![t] =
                      [kind |-> kind, at |-> "started", outcome |-> "none"]]
    /\ UNCHANGED <<is_processing, process_btn, validate_btn>>

\* a click on the process button, which Tk delivers while the button is not
\* disabled: process_supply starts a worker if validate_inputs passes
ClickProcess(t) ==
    /\ process_btn = "normal"
    /\ \E valid \in BOOLEAN :
          IF valid THEN StartThread(t, "process") ELSE UNCHANGED gvars
    /\ UNCHANGED <<mvars, lvars, rvars, svars, pvars>>

\* a click on the validate button: validate_api starts a worker
ClickValidate(t) ==
    /\ validate_btn = "normal"
    /\ StartThread(t, "validate")
    /\ UNCHANGED <<mvars, lvars, rvars, svars, pvars>>

\* the first statement of either worker: self.set_processing(True)
WorkerBegins(t) ==
    /\ threads[t].at = "started"
    /\ SetProcessing(TRUE)
    /\ threads' = [threads EXCEPT ![t].at = "body"]
    /\ UNCHANGED <<mvars, lvars, rvars, svars, pvars>>

\* the rest of the try block, up to the message box
WorkerBody(t) ==
    /\ threads[t].at = "body"
    /\ \E outcome \in Outcomes(threads[t].kind) :
          threads' = [threads EXCEPT ![t].at = "finally", ![t].outcome = outcome]
    /\ UNCHANGED <<is_processing, process_btn, validate_btn>>
    /\ UNCHANGED <<mvars, lvars, rvars, svars, pvars>>

\* finally: self.set_processing(False); the thread ends
WorkerEnds(t) ==
    /\ threads[t].at = "finally"
    /\ SetProcessing(FALSE)
    /\ threads' = [threads EXCEPT ![t] = NoThread]
    /\ UNCHANGED <<mvars, lvars, rvars, svars, pvars>>

InitGui ==
    /\ MergerIdle
    /\ ResolverIdle
    /\ ShapeIdle
    /\ PipelineIdle
    /\ GuiIdle

NextGui ==
    \E t \in Threads :
        \/ ClickProcess(t)
        \/ ClickValidate(t)
        \/ WorkerBegins(t)
        \/ WorkerBody(t)
        \/ WorkerEnds(t)

SpecGui == InitGui /\ [][NextGui]_vars

\* the worker threads that were started and have not ended
Alive == {t \in Threads : threads[t].at # "none"}

\* those of them that are past their set_processing(True)
Working == {t \in Alive : threads[t].at # "started"}

(* C26: at most one worker thread is alive at any time, and while a worker
   is past its set_processing(True) and has not ended, is_processing is true
   and both buttons are disabled. *)
C26_OneWorker ==
    /\ Cardinality(Alive) <= 1
    /\ Working # {} =>
          /\ is_processing
          /\ process_btn = "disabled"
          /\ validate_btn = "disabled"

====
